---- MODULE Spec2Model ----
(***************************************************************************)
(* Model of the Alif language server core (als): the priority ThreadPool,  *)
(* the RequestDispatcher that runs request and notification handlers on    *)
(* it, and the framed transport the replies are written to.                *)
(*                                                                         *)
(* Two specifications are defined:                                         *)
(*   SpecPool  the ThreadPool driven directly through its public API       *)
(*   Spec      the RequestDispatcher driving the ThreadPool                 *)
(***************************************************************************)
EXTENDS Integers, Naturals, Sequences, FiniteSets, TLC

(***************************************************************************)
(* Bounds of the model                                                     *)
(***************************************************************************)
MaxTasks == 2        \* tasks submitted to the pool in one behaviour
MaxQueue == 2        \* max_queue_size of the modelled pool
MaxMsgs == 2         \* messages the read loop dispatches in one behaviour
MaxClock == 1        \* largest steady_clock reading
MaxFrames == 3       \* messages written to the output stream in one behaviour
MaxResizes == 1      \* calls of ThreadPool::resize in one behaviour
MaxLen == 3          \* bytes in a document
MaxCount == 1        \* value at which the statistics counters of the steady pool saturate
MaxRest == 4         \* characters of a header line after "Content-Length"
MaxPending == 101    \* changes a document collects while the server is not ready

(***************************************************************************)
(* Program constants                                                       *)
(***************************************************************************)
NumWorkers == 2      \* test helper: ThreadPool(2, ...)
LOW == 0
NORMAL == 1
HIGH == 2
URGENT == 3
MethodNotFound == 0 - 32601
InvalidParams == 0 - 32602
InternalError == 0 - 32603

Priorities == {LOW, NORMAL, HIGH, URGENT}
RequestIds == {1, 2}
PoolPriorities == {NORMAL, URGENT}   \* priorities the pool is driven with

VARIABLES
    task_queue_,        \* ThreadPool::task_queue_ (set of Task records)
    tokens,             \* heap of cancellation tokens: token index -> flag
    stats_,             \* ThreadPool::stats_
    workers_,           \* per worker thread: position in workerLoop + task
    active_threads_,    \* ThreadPool::active_threads_
    stop_,              \* ThreadPool::stop_
    max_queue_size_,    \* ThreadPool::max_queue_size_
    now,                \* steady_clock reading
    nextTid,            \* number of Task objects created so far
    executed,           \* the tasks whose user function workers invoked, in order
    active_requests_,   \* RequestDispatcher::active_requests_ (id -> token, 0 = absent)
    dstats_,            \* RequestDispatcher::stats_
    wire,               \* frames written to the output stream, in order
    connected_,         \* JsonRpcProtocol::connected_
    reqs,               \* every request handed to dispatchRequest
    middleware_,        \* RequestDispatcher::middleware_ (preProcess results)
    notes,              \* every notification handed to dispatchNotification
    submit_result,      \* how the last direct call of submit ended
    wait_result,        \* what waitForCompletion returned
    dropped,            \* tids of the tasks removed by cancelAllTasks
    out_stream,         \* the chunks delivered to the peer, in order
    buffer_,            \* SocketStreamBuf::buffer_: the chunks put and not yet sent
    write_mutex_,       \* JsonRpcProtocol::write_mutex_: the thread that holds it
    writers,            \* per thread: position in writeRawMessage + its message
    next_frame,         \* number of writeRawMessage calls begun, plus one
    badbit,             \* the output stream's error state (std::ios_base::badbit)
    running_,           \* LspServer::Impl::running_
    use_socket_,        \* LspServer::Impl::use_socket_
    main,               \* the main thread: in the read loop, returned from it, in teardown
    last_read,          \* the frame the read loop read last and what became of it
    resizing,           \* ThreadPool::resize: where the call in progress stands, and the last call
    lexer_,             \* CompletionProvider::lexer_, a Lexer: source_, pos_, line_, column_, tokens_, errors_
    completion,         \* the completion list served for the last completion request
    header_line,        \* JsonRpcProtocol::readMessage: the Content-Length line read and what came of it
    catalog,            \* ArabicCompletionDatabase: s_initialized, s_allCompletions, the threads inside it
    m_process,          \* SpectrumLspClient::m_process, the LspProcess
    m_client,           \* SpectrumLspClient: m_connectionState, the connection timer, the protocol
    m_documents         \* DocumentManager: m_documentsMutex, the pending changes, the call in progress

poolVars == <<task_queue_, tokens, stats_, workers_, active_threads_, stop_,
              max_queue_size_, now, nextTid, executed>>
dispVars == <<active_requests_, dstats_, wire, connected_, reqs, middleware_, notes>>
obsVars == <<submit_result, wait_result, dropped, resizing>>
vars == <<task_queue_, tokens, stats_, workers_, active_threads_, stop_,
          max_queue_size_, now, nextTid, executed,
          active_requests_, dstats_, wire, connected_, reqs, middleware_, notes,
          submit_result, wait_result, dropped,
          out_stream, buffer_, write_mutex_, writers, next_frame, badbit,
          running_, use_socket_, main, last_read, resizing, lexer_, completion,
          header_line, catalog, m_process, m_client, m_documents>>
streamVars == <<out_stream, buffer_, write_mutex_, writers, next_frame, badbit>>
loopVars == <<running_, use_socket_, main, last_read>>
featVars == <<lexer_, completion, catalog>>
readVars == <<header_line>>
ideVars == <<m_process, m_client, m_documents>>

\* the worker threads of the pool (ThreadPool::workers_)
Workers == DOMAIN workers_

(***************************************************************************)
(* ThreadPool                                                              *)
(***************************************************************************)

\* struct Task; kind/arg stand for the closure in Task::function:
\*   kind "plain"         arg = 0 returns, arg = 1 throws
\*   kind "request"       arg = index into reqs  (executeRequestHandler)
\*   kind "notification"  arg = index into notes (executeNotificationHandler)
Task(tid, priority, time, token, kind, arg) ==
    [tid |-> tid, priority |-> priority, submit_time |-> time,
     cancellation_token |-> token, kind |-> kind, arg |-> arg]

NoTask == Task(0, 0, 0, 0, "none", 0)

\* operator< with the priority comparison turned round
TaskLess_LowFirst(a, b) ==
    IF a.priority # b.priority
    THEN a.priority > b.priority
    ELSE a.submit_time > b.submit_time

\* Task::operator<
TaskLess(a, b) ==
    IF a.priority # b.priority
    THEN a.priority < b.priority
    ELSE a.submit_time > b.submit_time

\* std::priority_queue<Task>::top(): an element no other element is greater
\* than; between equivalent elements the heap order decides.
IsTop(t, queue) == t \in queue /\ \A u \in queue : ~TaskLess(t, u)

\* ThreadPool::shouldCancel
shouldCancel(token) == token # 0 /\ tokens[token]

IdleWorker == [pc |-> "idle", task |-> NoTask, setAtDequeue |-> FALSE, success |-> FALSE,
               snap |-> [total |-> 0, successful |-> 0, failed |-> 0]]

\* no call of resize so far: calls counts the calls, last is the argument of
\* the call that returned last, at the number of tasks created before it
\* returned, shrunk whether it took the shrinking branch
NoResize == [pc |-> "idle", n |-> 0, calls |-> 0, last |-> 0 - 1, at |-> 0, shrunk |-> FALSE]

\* ThreadPool::ThreadPool(num_threads, max_queue_size): num_threads workers
\* waiting in workerLoop, nothing queued, counters zero
ThreadPoolInit(num_threads) ==
    /\ task_queue_ = {}
    /\ tokens = <<>>
    /\ stats_ = [submitted |-> 0, completed |-> 0, cancelled |-> 0, failed |-> 0]
    /\ workers_ = [w \in 1..num_threads |-> IdleWorker]
    /\ active_threads_ = 0
    /\ stop_ = FALSE
    /\ now = 0
    /\ nextTid = 1
    /\ executed = <<>>
    /\ submit_result = "none"
    /\ wait_result = "none"
    /\ dropped = {}
    /\ resizing = NoResize

\* the pool of the dispatcher tests
InitPool == ThreadPoolInit(NumWorkers)

\* the threads that call writeRawMessage: the read loop (0), which writes
\* the error replies of readMessage and dispatchRequest, and the workers
ReadLoop == 0
WriterThreads == {ReadLoop} \cup (1..NumWorkers)
NoThread == 0 - 1

\* JsonRpcProtocol::JsonRpcProtocol over a stream on which nothing has been
\* written
InitProtocol ==
    /\ out_stream = <<>>
    /\ buffer_ = <<>>
    /\ write_mutex_ = NoThread
    /\ writers = [t \in WriterThreads |-> [pc |-> "idle", msg |-> 0]]
    /\ next_frame = 1
    /\ badbit = FALSE

InitDispatcher ==
    /\ InitProtocol
    /\ active_requests_ = [i \in RequestIds |-> 0]
    /\ dstats_ = [total_requests |-> 0, successful_requests |-> 0,
                  failed_requests |-> 0, cancelled_requests |-> 0,
                  total_notifications |-> 0]
    /\ wire = <<>>
    /\ connected_ = TRUE
    /\ reqs = <<>>
    /\ notes = <<>>

\* no frame read yet
NoFrame == [n |-> 0, header |-> "none", payload |-> "none", type |-> "none"]

\* struct Position: 1-based line and column, 0-based byte offset
Position(line, column, offset) == [line |-> line, column |-> column, offset |-> offset]

\* Lexer::Lexer(source) and Lexer::reset(source); pc is the position of the
\* caller in tokenize: "ready" before the call, "loop" inside it, "done"
\* when it has returned, "thrown" when an exception has left it
Lexer(source) ==
    [source_ |-> source, pos_ |-> 0, line_ |-> 1, column_ |-> 1,
     tokens_ |-> <<>>, errors_ |-> <<>>, pc |-> "ready"]

\* JsonRpcProtocol::readMessage has read no Content-Length line yet;
\* content_length starts at -1
NoHeader ==
    [pc |-> "idle", rest |-> <<>>, content_length |-> 0 - 1,
     outcome |-> "none", allocated |-> FALSE]

\* ArabicCompletionDatabase before the first query: the static members as
\* defined (s_initialized = false, s_allCompletions empty); per worker
\* thread its position in provideArabicCompletions, whether it is inside
\* getAllCompletions, and the list it copied; populated counts the runs of
\* initialize that went past the test of s_initialized
NoCatalog ==
    [s_initialized |-> FALSE, s_allCompletions |-> 0, populated |-> 0,
     threads |-> [t \in 1..NumWorkers |->
                    [pc |-> "idle", in_get |-> FALSE, items |-> 0, raced |-> FALSE]]]

\* LspProcess::LspProcess: Stopped, no restart attempt, the restart timer
\* not started, the QProcess not running. waiting names the function in
\* which the GUI thread waits for m_stateMutex ("none": it does not wait),
\* call the public call that holds the mutex, connection how stateChanged
\* reaches SpectrumLspClient::onServerProcessStateChanged ("none" before
\* SpectrumLspClient::initialize), posted the slot invocations queued
NoProcess ==
    [m_state |-> "Stopped", m_stateMutex |-> "free", waiting |-> "none",
     call |-> "none", qprocess |-> "NotRunning", m_restartAttempts |-> 0,
     m_restartTimer |-> FALSE, connection |-> "none", posted |-> 0]

\* LspProtocol::LspProtocol: no process, not initialized, not ready
NoProtocol == [m_process |-> FALSE, m_initialized |-> FALSE, m_ready |-> FALSE]

\* SpectrumLspClient::SpectrumLspClient: Disconnected, the timers not
\* started. singleShots are the pending QTimer::singleShot calls, server
\* the methods of the messages the server has received, pipe what the
\* server has written and the client not yet read, and
\* initializeResponseReceived whether LspProtocol has emitted that signal
NoClient ==
    [m_connectionState |-> "Disconnected", m_connectionTimer |-> FALSE,
     m_healthTimer |-> FALSE, singleShots |-> {}, m_protocol |-> NoProtocol,
     server |-> {}, pipe |-> "none", initializeResponseReceived |-> FALSE]

\* the document of the editor, and the texts it takes
Uris == {1}
Contents == {"", "a", "b"}

\* a DocumentState that is not in m_documents
NoDocument == [isOpen |-> FALSE, content |-> "", pendingChanges |-> 0]

\* DocumentManager::DocumentManager: m_protocol(nullptr), no document, the
\* auto-sync timer not started; waiting names the call in which the GUI
\* thread waits for m_documentsMutex ("none": it does not wait). The
\* version, the time stamps and the statistics are not modelled
NoDocuments ==
    [m_documentsMutex |-> "free", waiting |-> "none", m_protocol |-> FALSE,
     m_autoSyncTimer |-> FALSE, m_documents |-> [uri \in Uris |-> NoDocument]]

\* no completion request has been served
NoCompletion == [line |-> 0, character |-> 0, served |-> FALSE, items |-> {}]

\* LspServer::Impl after startStdio, when run() enters the read loop; the
\* constructor has built completionProvider_, whose member is lexer_("")
InitServer ==
    /\ running_ = TRUE
    /\ use_socket_ = FALSE
    /\ main = "loop"
    /\ last_read = NoFrame
    /\ lexer_ = Lexer(<<>>)
    /\ completion = NoCompletion
    /\ header_line = NoHeader
    /\ catalog = NoCatalog
    /\ m_process = NoProcess
    /\ m_client = NoClient
    /\ m_documents = NoDocuments

\* ThreadPool::createCancellationToken
createCancellationToken(heap) == Append(heap, FALSE)

\* submitCancellable refusing only a queue that holds more than max_queue_size_
SubmitOutcome_OffByOne ==
    IF stop_ THEN "Stopped"
    ELSE IF Cardinality(task_queue_) > max_queue_size_ THEN "QueueFull"
    ELSE "Ok"

\* ThreadPool::submitCancellable: the outcome of one call
\*   "Stopped" / "QueueFull": the call throws and nothing changes
SubmitOutcome ==
    IF stop_ THEN "Stopped"
    ELSE IF Cardinality(task_queue_) >= max_queue_size_ THEN "QueueFull"
    ELSE "Ok"

\* the state change of a successful submitCancellable
Enqueue(priority, token, kind, arg) ==
    /\ task_queue_' = task_queue_ \cup {Task(nextTid, priority, now, token, kind, arg)}
    /\ stats_' = [stats_ EXCEPT !.submitted = @ + 1]
    /\ nextTid' = nextTid + 1

\* ThreadPool::submit(priority, f) == submitCancellable(priority, nullptr, f)
Submit(priority, throws) ==
    /\ nextTid <= MaxTasks
    /\ IF SubmitOutcome = "Ok"
       THEN Enqueue(priority, 0, "plain", throws)
       ELSE UNCHANGED <<task_queue_, stats_, nextTid>>
    /\ submit_result' = SubmitOutcome
    /\ UNCHANGED <<tokens, workers_, active_threads_, stop_, max_queue_size_, now, executed>>
    /\ UNCHANGED dispVars
    /\ UNCHANGED <<wait_result, dropped, resizing>>
    /\ UNCHANGED streamVars
    /\ UNCHANGED loopVars
    /\ UNCHANGED <<featVars, readVars, ideVars>>

\* createCancellationToken followed by submitCancellable with that token
SubmitCancellable(priority, throws) ==
    /\ nextTid <= MaxTasks
    /\ Len(tokens) < MaxTasks
    /\ tokens' = createCancellationToken(tokens)
    /\ IF SubmitOutcome = "Ok"
       THEN Enqueue(priority, Len(tokens) + 1, "plain", throws)
       ELSE UNCHANGED <<task_queue_, stats_, nextTid>>
    /\ submit_result' = SubmitOutcome
    /\ UNCHANGED <<workers_, active_threads_, stop_, max_queue_size_, now, executed>>
    /\ UNCHANGED dispVars
    /\ UNCHANGED <<wait_result, dropped, resizing>>
    /\ UNCHANGED streamVars
    /\ UNCHANGED loopVars
    /\ UNCHANGED <<featVars, readVars, ideVars>>

\* the owner of a token stores true into it
SetToken(k) ==
    /\ k \in 1..Len(tokens)
    /\ ~tokens[k]
    /\ tokens' = [tokens EXCEPT ![k] = TRUE]
    /\ UNCHANGED <<task_queue_, stats_, workers_, active_threads_, stop_, max_queue_size_, now,
                   nextTid, executed>>
    /\ UNCHANGED dispVars
    /\ UNCHANGED obsVars
    /\ UNCHANGED streamVars
    /\ UNCHANGED loopVars
    /\ UNCHANGED <<featVars, readVars, ideVars>>

\* cancelAllTasks adding to the counter and leaving the queue as it is
cancelAllTasks_CountsOnly ==
    /\ task_queue_ # {}
    /\ task_queue_' = task_queue_
    /\ stats_' = [stats_ EXCEPT !.cancelled = @ + Cardinality(task_queue_)]
    /\ dropped' = dropped \cup {t.tid : t \in task_queue_}
    /\ UNCHANGED <<tokens, workers_, active_threads_, stop_, max_queue_size_, now, nextTid, executed>>
    /\ UNCHANGED dispVars
    /\ UNCHANGED <<submit_result, wait_result, resizing>>
    /\ UNCHANGED streamVars
    /\ UNCHANGED loopVars
    /\ UNCHANGED <<featVars, readVars, ideVars>>

\* ThreadPool::waitForCompletion, the first call: under queue_mutex_ it
\* returns true when the queue is empty and active_threads_ is 0; otherwise
\* it polls again until the timeout has elapsed and then returns false
waitForCompletion ==
    /\ wait_result = "none"
    /\ wait_result' = IF task_queue_ = {} /\ active_threads_ = 0 THEN "true" ELSE "false"
    /\ UNCHANGED <<task_queue_, tokens, stats_, workers_, active_threads_, stop_,
                   max_queue_size_, now, nextTid, executed>>
    /\ UNCHANGED dispVars
    /\ UNCHANGED <<submit_result, dropped, resizing>>
    /\ UNCHANGED streamVars
    /\ UNCHANGED loopVars
    /\ UNCHANGED <<featVars, readVars, ideVars>>

\* ThreadPool::cancelAllTasks
cancelAllTasks ==
    /\ task_queue_ # {}
    /\ task_queue_' = {}
    /\ stats_' = [stats_ EXCEPT !.cancelled = @ + Cardinality(task_queue_)]
    /\ dropped' = dropped \cup {t.tid : t \in task_queue_}
    /\ UNCHANGED <<tokens, workers_, active_threads_, stop_, max_queue_size_, now, nextTid, executed>>
    /\ UNCHANGED dispVars
    /\ UNCHANGED <<submit_result, wait_result, resizing>>
    /\ UNCHANGED streamVars
    /\ UNCHANGED loopVars
    /\ UNCHANGED <<featVars, readVars, ideVars>>

\* ThreadPool::~ThreadPool: stop_ = true; the workers drain the queue and exit
Shutdown ==
    /\ ~stop_
    /\ stop_' = TRUE
    /\ UNCHANGED <<task_queue_, tokens, stats_, workers_, active_threads_, max_queue_size_, now,
                   nextTid, executed>>
    /\ UNCHANGED dispVars
    /\ UNCHANGED obsVars
    /\ UNCHANGED streamVars
    /\ UNCHANGED loopVars
    /\ UNCHANGED <<featVars, readVars, ideVars>>

\* workerLoop: condition_.wait returns with a non-empty queue; top() and pop()
Dequeue(w) ==
    /\ workers_[w].pc = "idle"
    /\ \E t \in task_queue_ :
        /\ IsTop(t, task_queue_)
        /\ task_queue_' = task_queue_ \ {t}
        /\ workers_' = [workers_ EXCEPT ![w].pc = "popped", ![w].task = t,
                ![w].setAtDequeue = shouldCancel(t.cancellation_token)]
    /\ UNCHANGED <<tokens, stats_, active_threads_, stop_, max_queue_size_, now, nextTid, executed>>
    /\ UNCHANGED dispVars
    /\ UNCHANGED obsVars
    /\ UNCHANGED streamVars
    /\ UNCHANGED loopVars
    /\ UNCHANGED <<featVars, readVars, ideVars>>

\* workerLoop: stop_ && task_queue_.empty() -> break
WorkerExit(w) ==
    /\ workers_[w].pc = "idle"
    /\ stop_
    /\ task_queue_ = {}
    /\ workers_' = [workers_ EXCEPT ![w].pc = "exited"]
    /\ UNCHANGED <<task_queue_, tokens, stats_, active_threads_, stop_, max_queue_size_, now,
                   nextTid, executed>>
    /\ UNCHANGED dispVars
    /\ UNCHANGED obsVars
    /\ UNCHANGED streamVars
    /\ UNCHANGED loopVars
    /\ UNCHANGED <<featVars, readVars, ideVars>>

\* workerLoop: active_threads_++ (after the queue mutex has been released)
BeginTask(w) ==
    /\ workers_[w].pc = "popped"
    /\ active_threads_' = active_threads_ + 1
    /\ workers_' = [workers_ EXCEPT ![w].pc = "active"]
    /\ UNCHANGED <<task_queue_, tokens, stats_, stop_, max_queue_size_, now, nextTid, executed>>
    /\ UNCHANGED dispVars
    /\ UNCHANGED obsVars
    /\ UNCHANGED streamVars
    /\ UNCHANGED loopVars
    /\ UNCHANGED <<featVars, readVars, ideVars>>

\* workerLoop: if (!shouldCancel(task.cancellation_token)) task.function();
\* a task whose token is set is skipped: task.function is not called
WorkerSkips(token) == shouldCancel(token)

WorkerCheck(w) ==
    /\ workers_[w].pc = "active"
    /\ workers_' = [workers_ EXCEPT ![w].pc =
            IF WorkerSkips(workers_[w].task.cancellation_token)
            THEN "done" ELSE "wrapper"]
    /\ UNCHANGED <<task_queue_, tokens, stats_, active_threads_, stop_, max_queue_size_, now,
                   nextTid, executed>>
    /\ UNCHANGED dispVars
    /\ UNCHANGED obsVars
    /\ UNCHANGED streamVars
    /\ UNCHANGED loopVars
    /\ UNCHANGED <<featVars, readVars, ideVars>>

\* the closure built by submitCancellable, first statement:
\* if (shouldCancel(cancellation_token)) { stats_.cancelled++; return; }
WrapperCheck(w) ==
    /\ workers_[w].pc = "wrapper"
    /\ IF shouldCancel(workers_[w].task.cancellation_token)
       THEN /\ stats_' = [stats_ EXCEPT !.cancelled = @ + 1]
            /\ workers_' = [workers_ EXCEPT ![w].pc = "done"]
       ELSE /\ stats_' = stats_
            /\ workers_' = [workers_ EXCEPT ![w].pc = "call"]
    /\ UNCHANGED <<task_queue_, tokens, active_threads_, stop_, max_queue_size_, now, nextTid, executed>>
    /\ UNCHANGED dispVars
    /\ UNCHANGED obsVars
    /\ UNCHANGED streamVars
    /\ UNCHANGED loopVars
    /\ UNCHANGED <<featVars, readVars, ideVars>>

\* (*task)() on a std::packaged_task: an exception thrown by the user
\* function is stored in the shared state of the future and is not rethrown
\* to the caller, so the call itself returns normally.
PackagedTaskRethrows(userThrows) == FALSE

\* the closure built by submitCancellable, after the check: (*task)(), then
\* stats_.completed++ when the call returned, stats_.failed++ in catch (...)
WrapperCount(st, rethrown) ==
    IF rethrown
    THEN [st EXCEPT !.failed = @ + 1]
    ELSE [st EXCEPT !.completed = @ + 1]

\* one invocation of a user function: the task, and how many tasks had been
\* submitted by then
Invocation(task) == [task |-> task, submitted |-> stats_.submitted]

RunPlain(w) ==
    /\ workers_[w].pc = "call"
    /\ workers_[w].task.kind = "plain"
    /\ executed' = Append(executed, Invocation(workers_[w].task))
    /\ stats_' = WrapperCount(stats_, PackagedTaskRethrows(workers_[w].task.arg = 1))
    /\ workers_' = [workers_ EXCEPT ![w].pc = "done"]
    /\ UNCHANGED <<task_queue_, tokens, active_threads_, stop_, max_queue_size_, now, nextTid>>
    /\ UNCHANGED dispVars
    /\ UNCHANGED obsVars
    /\ UNCHANGED streamVars
    /\ UNCHANGED loopVars
    /\ UNCHANGED <<featVars, readVars, ideVars>>

\* workerLoop: active_threads_--, next iteration
EndTask(w) ==
    /\ workers_[w].pc = "done"
    /\ active_threads_' = active_threads_ - 1
    /\ workers_' = [workers_ EXCEPT ![w] = IdleWorker]
    /\ UNCHANGED <<task_queue_, tokens, stats_, stop_, max_queue_size_, now, nextTid, executed>>
    /\ UNCHANGED dispVars
    /\ UNCHANGED obsVars
    /\ UNCHANGED streamVars
    /\ UNCHANGED loopVars
    /\ UNCHANGED <<featVars, readVars, ideVars>>

(***************************************************************************)
(* JsonRpcProtocol: the write side                                         *)
(***************************************************************************)

\* a frame on the output stream; req is the request the frame was written
\* for (0 when it was written for none)
Frame(req, id, kind, code) == [req |-> req, id |-> id, kind |-> kind, code |-> code]

\* JsonRpcProtocol::writeRawMessage: a no-op once disconnected
writeRawMessage(out, frame) == IF connected_ THEN Append(out, frame) ELSE out

(***************************************************************************)
(* RequestDispatcher                                                       *)
(***************************************************************************)

\* LspServer::Impl::registerLspHandlers
request_handlers_ == {"initialize", "shutdown", "textDocument/completion"}
notification_handlers_ == {"textDocument/didOpen", "textDocument/didChange",
                           "textDocument/didClose", "exit"}

\* the request methods the read loop is driven with
RequestMethods == {"textDocument/completion", "no/such"}

\* LspServer::Impl::Impl: addMiddleware(LoggingMiddleware), addMiddleware(MetricsMiddleware)
ServerMiddleware == <<"Logging", "Metrics">>

\* LoggingMiddleware::preProcess and MetricsMiddleware::preProcess return
\* true; a middleware of any other kind is one that blocks
preProcess(m) == m \in {"Logging", "Metrics"}

\* RequestDispatcher::runMiddlewarePreProcess
runMiddlewarePreProcess == \A i \in 1..Len(middleware_) : preProcess(middleware_[i])

\* one call of a middleware: op is "pre" or "post", mw the position of the
\* middleware in middleware_, success the result of preProcess or the
\* success argument of postProcess
MiddlewareCall(op, mw, success) == [op |-> op, mw |-> mw, success |-> success]

\* the preProcess calls runMiddlewarePreProcess makes: in the order of
\* middleware_, up to and including the first one that returns false
PreProcessCalls ==
    LET blocking == {i \in 1..Len(middleware_) : ~preProcess(middleware_[i])}
        last == IF blocking = {} THEN Len(middleware_)
                ELSE CHOOSE i \in blocking : \A j \in blocking : i <= j
    IN [i \in 1..last |-> MiddlewareCall("pre", i, preProcess(middleware_[i]))]

\* RequestDispatcher::runMiddlewarePostProcess: the postProcess calls it
\* makes, over middleware_ from first to last
PostProcessCalls(success) ==
    [i \in 1..Len(middleware_) |-> MiddlewareCall("post", i, success)]

\* what a RequestHandler (any std::function) can do with its context:
\*   "respond"       context.respond(result), return
\*   "error"         context.error(-32602, ...), return
\*   "coop"          poll the token: return silently when set, else respond
\*   "throw"         throw before replying
\*   "respondThrow"  context.respond(result), then throw
HandlerBehaviours == {"respond", "error", "coop", "throw", "respondThrow"}

Request(id, method, token, status) ==
    [id |-> id, method |-> method, token |-> token, status |-> status,
     early |-> FALSE, invoked |-> FALSE, threw |-> FALSE, done |-> FALSE,
     failed |-> FALSE, mw |-> <<>>]

Notification(method, id, target, status) ==
    [method |-> method, id |-> id, target |-> target, status |-> status,
     threw |-> FALSE]

\* the task of request r has not been handed to its function yet
NotStarted(r) ==
    \/ \E t \in task_queue_ : t.kind = "request" /\ t.arg = r
    \/ \E w \in Workers : /\ workers_[w].pc \in {"popped", "active"}
                          /\ workers_[w].task.kind = "request"
                          /\ workers_[w].task.arg = r

\* the respond callback built by dispatchRequest: protocol_.writeMessage(response)
respond(out, r) == writeRawMessage(out, Frame(r, reqs[r].id, "result", 0))

\* the error callback built by dispatchRequest: protocol_.writeError(id, code, ...)
error(out, r, code) == writeRawMessage(out, Frame(r, reqs[r].id, "error", code))

\* RequestDispatcher::sendMethodNotFoundError
sendMethodNotFoundError(r, id) ==
    /\ wire' = writeRawMessage(wire, Frame(r, id, "error", MethodNotFound))
    /\ dstats_' = [dstats_ EXCEPT !.failed_requests = @ + 1]

\* LspServer::Impl::handleMessage, after dispatch: false for the methods
\* that end the read loop
handleMessage(type, method) ==
    IF type = "Request" THEN method \notin {"shutdown", "exit"}
    ELSE IF type = "Notification" THEN method # "exit"
    ELSE TRUE

\* one turn of the read loop of runStdio for a well-formed request:
\* RequestDispatcher::dispatchRequest, then the test of handleMessage; an
\* exception of ThreadPool::submit leaves dispatchRequest and is caught and
\* logged by the read loop (LspServer::Impl::runStdio)
DispatchRequest(id, method) ==
    /\ main = "loop" /\ running_ /\ connected_
    /\ main' = IF handleMessage("Request", method) THEN "loop" ELSE "returned"
    /\ Len(reqs) + Len(notes) < MaxMsgs
    /\ LET r == Len(reqs) + 1 IN
       IF method \notin request_handlers_
       THEN /\ sendMethodNotFoundError(r, id)
            /\ reqs' = Append(reqs, Request(id, method, 0, "notfound"))
            /\ UNCHANGED <<tokens, active_requests_, task_queue_, stats_, nextTid>>
       ELSE /\ tokens' = createCancellationToken(tokens)
            /\ active_requests_' = [active_requests_ EXCEPT ![id] = Len(tokens) + 1]
            /\ IF SubmitOutcome = "Ok"
               THEN /\ Enqueue(NORMAL, 0, "request", r)
                    /\ reqs' = Append(reqs, Request(id, method, Len(tokens) + 1, "accepted"))
               ELSE /\ reqs' = Append(reqs, Request(id, method, Len(tokens) + 1, "rejected"))
                    /\ UNCHANGED <<task_queue_, stats_, nextTid>>
            /\ UNCHANGED <<wire, dstats_>>
    /\ UNCHANGED <<workers_, active_threads_, stop_, max_queue_size_, now, executed,
                   connected_, middleware_, notes>>
    /\ UNCHANGED obsVars
    /\ UNCHANGED streamVars
    /\ UNCHANGED <<running_, use_socket_, last_read>>
    /\ UNCHANGED <<featVars, readVars, ideVars>>

\* one turn of the read loop for a well-formed notification:
\* RequestDispatcher::dispatchNotification, then the test of handleMessage;
\* id is params.id of the message
DispatchNotification(method, id) ==
    /\ main = "loop" /\ running_ /\ connected_
    /\ main' = IF handleMessage("Notification", method) THEN "loop" ELSE "returned"
    /\ Len(reqs) + Len(notes) < MaxMsgs
    /\ LET n == Len(notes) + 1
           target == IF method = "$/cancelRequest" THEN active_requests_[id] ELSE 0 IN
       IF method \notin notification_handlers_
       THEN /\ notes' = Append(notes, Notification(method, id, target, "dropped"))
            /\ UNCHANGED <<task_queue_, stats_, nextTid>>
       ELSE IF SubmitOutcome = "Ok"
       THEN /\ Enqueue(LOW, 0, "notification", n)
            /\ notes' = Append(notes, Notification(method, id, target, "accepted"))
       ELSE /\ notes' = Append(notes, Notification(method, id, target, "rejected"))
            /\ UNCHANGED <<task_queue_, stats_, nextTid>>
    /\ UNCHANGED <<tokens, workers_, active_threads_, stop_, max_queue_size_, now, executed,
                   active_requests_, dstats_, wire, connected_, reqs, middleware_>>
    /\ UNCHANGED obsVars
    /\ UNCHANGED streamVars
    /\ UNCHANGED <<running_, use_socket_, last_read>>
    /\ UNCHANGED <<featVars, readVars, ideVars>>

\* the requests whose token is among ks are marked as cancelled before their
\* task started when it has not started
MarkEarly(ks) ==
    [r \in 1..Len(reqs) |->
        IF reqs[r].token \in ks /\ NotStarted(r)
        THEN [reqs[r] EXCEPT !.early = TRUE]
        ELSE reqs[r]]

\* RequestDispatcher::cancelRequest
cancelRequest(id) ==
    /\ active_requests_[id] # 0
    /\ ~tokens[active_requests_[id]]
    /\ tokens' = [tokens EXCEPT ![active_requests_[id]] = TRUE]
    /\ reqs' = MarkEarly({active_requests_[id]})
    /\ UNCHANGED <<task_queue_, stats_, workers_, active_threads_, stop_,
                   max_queue_size_, now, nextTid, executed,
                   active_requests_, dstats_, wire, connected_, middleware_, notes>>
    /\ UNCHANGED obsVars
    /\ UNCHANGED streamVars
    /\ UNCHANGED loopVars
    /\ UNCHANGED <<featVars, readVars, ideVars>>

\* RequestDispatcher::cancelAllRequests
cancelAllRequests ==
    /\ \E i \in RequestIds : active_requests_[i] # 0
    /\ LET ks == {active_requests_[i] : i \in RequestIds} \ {0} IN
        /\ tokens' = [k \in 1..Len(tokens) |-> tokens[k] \/ k \in ks]
        /\ reqs' = MarkEarly({k \in ks : ~tokens[k]})
    /\ active_requests_' = [i \in RequestIds |-> 0]
    /\ UNCHANGED <<task_queue_, stats_, workers_, active_threads_, stop_,
                   max_queue_size_, now, nextTid, executed,
                   dstats_, wire, connected_, middleware_, notes>>
    /\ UNCHANGED obsVars
    /\ UNCHANGED streamVars
    /\ UNCHANGED loopVars
    /\ UNCHANGED <<featVars, readVars, ideVars>>

\* workerLoop seen from the dispatcher: a worker takes the top task, counts
\* itself active and calls task.function; the tasks of the dispatcher carry
\* no pool token (submit passes nullptr), so neither shouldCancel check of
\* the pool can skip them
StartTask(w) ==
    /\ workers_[w].pc = "idle"
    /\ \E t \in task_queue_ :
        /\ IsTop(t, task_queue_)
        /\ ~WorkerSkips(t.cancellation_token)
        /\ task_queue_' = task_queue_ \ {t}
        /\ workers_' = [workers_ EXCEPT ![w].pc = "call", ![w].task = t]
    /\ active_threads_' = active_threads_ + 1
    /\ UNCHANGED <<tokens, stats_, stop_, max_queue_size_, now, nextTid, executed>>
    /\ UNCHANGED dispVars
    /\ UNCHANGED obsVars
    /\ UNCHANGED streamVars
    /\ UNCHANGED loopVars
    /\ UNCHANGED <<featVars, readVars, ideVars>>

\* the function of a dispatcher task returns: the closure of
\* submitCancellable counts it, workerLoop does active_threads_-- and waits
TaskReturns(w) ==
    /\ stats_' = WrapperCount(stats_, FALSE)
    /\ active_threads_' = active_threads_ - 1
    /\ workers_' = [workers_ EXCEPT ![w] = IdleWorker]

\* executeRequestHandler without its cancellation check
CancelledBeforeExecution_NoCheck(r) == FALSE

\* RequestDispatcher::executeRequestHandler, entry: a set token ends the
\* task here (cancelled_requests++, return)
CancelledBeforeExecution(r) == tokens[reqs[r].token]

\* executeRequestHandler up to the call of the handler: the cancellation
\* check, then runMiddlewarePreProcess
ExecCheck(w) ==
    /\ workers_[w].pc = "call"
    /\ workers_[w].task.kind = "request"
    /\ LET r == workers_[w].task.arg IN
       IF CancelledBeforeExecution(r)
       THEN /\ dstats_' = [dstats_ EXCEPT !.cancelled_requests = @ + 1]
            /\ reqs' = [reqs EXCEPT ![r].done = TRUE]
            /\ TaskReturns(w)
       ELSE IF ~runMiddlewarePreProcess
       THEN /\ reqs' = [reqs EXCEPT ![r].done = TRUE, ![r].mw = @ \o PreProcessCalls]
            /\ TaskReturns(w)
            /\ dstats_' = dstats_
       ELSE /\ workers_' = [workers_ EXCEPT ![w].pc = "handler"]
            /\ reqs' = [reqs EXCEPT ![r].mw = @ \o PreProcessCalls]
            /\ UNCHANGED <<stats_, active_threads_, dstats_>>
    /\ UNCHANGED <<task_queue_, tokens, stop_, max_queue_size_, now,
                   nextTid, executed, active_requests_, wire, connected_,
                   middleware_, notes>>
    /\ UNCHANGED obsVars
    /\ UNCHANGED streamVars
    /\ UNCHANGED loopVars
    /\ UNCHANGED <<featVars, readVars, ideVars>>

\* what the handler writes
HandlerWrites(out, r, b) ==
    CASE b = "respond" -> respond(out, r)
      [] b = "error" -> error(out, r, InvalidParams)
      [] b = "coop" -> IF tokens[reqs[r].token] THEN out ELSE respond(out, r)
      [] b = "throw" -> out
      [] b = "respondThrow" -> respond(out, r)

HandlerThrows(b) == b \in {"throw", "respondThrow"}

\* executeRequestHandler, catch: context.error(-32603, "Internal error", ...)
CatchHandlerException(out, r) == error(out, r, InternalError)

\* what the handler registered for the method does to running_:
\* handleShutdownRequest and handleExitNotification store false, from the
\* worker thread and without any lock
HandlerStoresRunning(method, running) ==
    IF method \in {"shutdown", "exit"} THEN FALSE ELSE running

\* executeRequestHandler: handler(context); success = true; the catch;
\* runMiddlewarePostProcess; then updateStats is entered without
\* stats_mutex_: the counters are read here ...
ExecHandler(w, b) ==
    /\ workers_[w].pc = "handler"
    /\ LET r == workers_[w].task.arg IN
        /\ wire' = IF HandlerThrows(b)
                   THEN CatchHandlerException(HandlerWrites(wire, r, b), r)
                   ELSE HandlerWrites(wire, r, b)
        /\ reqs' = [reqs EXCEPT ![r].invoked = TRUE, ![r].threw = HandlerThrows(b),
                                ![r].mw = @ \o PostProcessCalls(~HandlerThrows(b))]
        /\ workers_' = [workers_ EXCEPT ![w].pc = "stats",
                ![w].success = ~HandlerThrows(b),
                ![w].snap = [total |-> dstats_.total_requests,
                             successful |-> dstats_.successful_requests,
                             failed |-> dstats_.failed_requests]]
        /\ running_' = HandlerStoresRunning(reqs[r].method, running_)
    /\ UNCHANGED <<task_queue_, tokens, stats_, active_threads_, stop_, max_queue_size_,
                   now, nextTid, executed, active_requests_, dstats_, connected_,
                   middleware_, notes>>
    /\ UNCHANGED obsVars
    /\ UNCHANGED streamVars
    /\ UNCHANGED <<use_socket_, main, last_read>>
    /\ UNCHANGED <<featVars, readVars, ideVars>>

\* RequestDispatcher::updateStats on the counters read before
updateStats(st, snap, success) ==
    [st EXCEPT !.successful_requests = IF success THEN snap.successful + 1 ELSE snap.successful,
               !.failed_requests = IF success THEN snap.failed ELSE snap.failed + 1,
               !.total_requests = snap.total + 1]

\* ... and written back here; then active_requests_.erase(context.request_id)
\* and the task returns
ExecStats(w) ==
    /\ workers_[w].pc = "stats"
    /\ LET r == workers_[w].task.arg IN
        /\ dstats_' = updateStats(dstats_, workers_[w].snap, workers_[w].success)
        /\ active_requests_' = [active_requests_ EXCEPT ![reqs[r].id] = 0]
        /\ reqs' = [reqs EXCEPT ![r].done = TRUE, ![r].failed = ~workers_[w].success]
    /\ TaskReturns(w)
    /\ UNCHANGED <<task_queue_, tokens, stop_, max_queue_size_, now,
                   nextTid, executed, wire, connected_, middleware_, notes>>
    /\ UNCHANGED obsVars
    /\ UNCHANGED streamVars
    /\ UNCHANGED loopVars
    /\ UNCHANGED <<featVars, readVars, ideVars>>

\* the catch of executeNotificationHandler answering on the wire as the
\* catch of executeRequestHandler does
NotificationCatch_Replies(out, n) ==
    writeRawMessage(out, Frame(0, notes[n].id, "error", InternalError))

\* executeNotificationHandler, catch: the exception is logged to std::cerr
\* and nothing is written to the protocol
NotificationCatch(out, n) == out

\* RequestDispatcher::executeNotificationHandler: the handler, which returns
\* or throws; the catch; then under stats_mutex_ total_notifications++ and
\* updateStats(method, success)
ExecNotification(w, throws) ==
    /\ workers_[w].pc = "call"
    /\ workers_[w].task.kind = "notification"
    /\ wire' = IF throws THEN NotificationCatch(wire, workers_[w].task.arg) ELSE wire
    /\ dstats_' = [updateStats(dstats_,
                        [total |-> dstats_.total_requests,
                         successful |-> dstats_.successful_requests,
                         failed |-> dstats_.failed_requests], ~throws)
                   EXCEPT !.total_notifications = @ + 1]
    /\ notes' = [notes EXCEPT ![workers_[w].task.arg].status = "handled",
                              ![workers_[w].task.arg].threw = throws]
    /\ running_' = HandlerStoresRunning(notes[workers_[w].task.arg].method, running_)
    /\ TaskReturns(w)
    /\ UNCHANGED <<task_queue_, tokens, stop_, max_queue_size_, now,
                   nextTid, executed, active_requests_, connected_, reqs,
                   middleware_>>
    /\ UNCHANGED obsVars
    /\ UNCHANGED streamVars
    /\ UNCHANGED <<use_socket_, main, last_read>>
    /\ UNCHANGED <<featVars, readVars, ideVars>>

(***************************************************************************)
(* JsonRpcProtocol: the read side, and the read loop of the server         *)
(***************************************************************************)

ParseError == 0 - 32700

\* what the protocol looks at in the payload of a frame:
\*   kind        "garbage" (not JSON), "empty" (no bytes), "array" (JSON, not
\*               an object), "object"
\*   jsonrpc     "absent", "2.0" or another version
\*   method      "absent", "nonstring", or "no/such", a string that names no
\*               registered handler
\*   has_result, has_error   json.contains("result"), json.contains("error")
\*   id          0 when the member is absent
Json(kind, jsonrpc, method, has_result, has_error, id) ==
    [kind |-> kind, jsonrpc |-> jsonrpc, method |-> method,
     has_result |-> has_result, has_error |-> has_error, id |-> id]

JsonObjects ==
    [kind : {"object"}, jsonrpc : {"absent", "2.0", "1.0"},
     method : {"absent", "nonstring", "no/such"},
     has_result : BOOLEAN, has_error : BOOLEAN, id : {0, 1}]

NotJson == Json("garbage", "absent", "absent", FALSE, FALSE, 0)
EmptyText == Json("empty", "absent", "absent", FALSE, FALSE, 0)
JsonArray == Json("array", "absent", "absent", FALSE, FALSE, 0)

\* a frame on the input stream. header:
\*   "ok"         Content-Length: N, N > 0, and N bytes of payload
\*   "oversize"   the same with N above 100 MiB
\*   "zero"       Content-Length: 0
\*   "none"       header lines without Content-Length, then the blank line
\*   "garbled"    Content-Length: followed by no number
\*   "truncated"  Content-Length: N and fewer than N bytes before the end
\*   "eof"        the stream ends within the headers
InFrame(header, payload) == [header |-> header, payload |-> payload]

\* the frames the read loop is driven with
InFrames ==
    {InFrame("ok", j) : j \in JsonObjects \cup {NotJson, JsonArray}}
        \cup {InFrame("oversize", j) : j \in {NotJson, Json("object", "2.0", "no/such", FALSE, FALSE, 1)}}
        \cup {InFrame("zero", EmptyText)}
        \cup {InFrame(h, NotJson) : h \in {"none", "garbled", "truncated", "eof"}}

\* nlohmann::json::parse succeeds
IsJson(j) == j.kind \in {"array", "object"}

\* JsonRpcProtocol::validateJsonRpcMessage
validateJsonRpcMessage(j) ==
    /\ j.kind = "object"
    /\ j.jsonrpc = "2.0"
    /\ (j.method # "absent" \/ j.has_result \/ j.has_error)
    /\ (j.method # "absent" => j.method # "nonstring")
    /\ ~(j.has_result /\ j.has_error)

\* JsonRpcProtocol::determineMessageType
determineMessageType(j) ==
    IF j.method # "absent"
    THEN (IF j.id # 0 THEN "Request" ELSE "Notification")
    ELSE IF j.has_error THEN "Error" ELSE "Response"

\* what readMessage and parseMessage give back: the type of the message
\* ("nullopt" for none), connected_ afterwards, the output stream afterwards
ReadResult(type, connected, out) == [type |-> type, connected |-> connected, out |-> out]

\* JsonRpcProtocol::parseMessage: a parse error is written for text that is
\* not JSON; a message that fails validation is logged to std::cerr only
parseMessage(j, out) ==
    IF ~IsJson(j)
    THEN ReadResult("nullopt", connected_, writeRawMessage(out, Frame(0, 0, "error", ParseError)))
    ELSE IF ~validateJsonRpcMessage(j)
    THEN ReadResult("nullopt", connected_, out)
    ELSE ReadResult(determineMessageType(j), connected_, out)

\* JsonRpcProtocol::readMessage: the headers, then content_length bytes,
\* then parseMessage; content_length is tested against -1 only
readMessage(f, out) ==
    CASE f.header = "garbled" ->
            ReadResult("nullopt", connected_, writeRawMessage(out, Frame(0, 0, "error", ParseError)))
      [] f.header \in {"none", "eof"} ->
            ReadResult("nullopt", FALSE, out)
      [] f.header = "truncated" ->
            ReadResult("nullopt", FALSE, writeRawMessage(out, Frame(0, 0, "error", ParseError)))
      [] f.header \in {"ok", "zero", "oversize"} ->
            parseMessage(f.payload, out)

\* one turn of the while loop of LspServer::Impl::runStdio on frame f:
\* readMessage; break when it gave no message; handleMessage, which hands
\* the message to RequestDispatcher::dispatch: a request for a method
\* without handler is answered by sendMethodNotFoundError, a notification
\* for one is dropped, a response or error is ignored
RunStdio(f) ==
    /\ main = "loop" /\ running_ /\ connected_
    /\ last_read.n < MaxMsgs
    /\ LET m == readMessage(f, wire)
           method == f.payload.method IN
        /\ last_read' = [n |-> last_read.n + 1, header |-> f.header,
                         payload |-> f.payload, type |-> m.type]
        /\ connected_' = m.connected
        /\ main' = IF m.type = "nullopt" THEN "returned"
                   ELSE IF handleMessage(m.type, method) THEN "loop" ELSE "returned"
        /\ IF m.type = "Request"
           THEN /\ sendMethodNotFoundError(Len(reqs) + 1, f.payload.id)
                /\ reqs' = Append(reqs, Request(f.payload.id, method, 0, "notfound"))
                /\ notes' = notes
           ELSE IF m.type = "Notification"
           THEN /\ notes' = Append(notes, Notification(method, 0, 0, "dropped"))
                /\ wire' = m.out
                /\ UNCHANGED <<reqs, dstats_>>
           ELSE /\ wire' = m.out
                /\ UNCHANGED <<reqs, notes, dstats_>>
    /\ UNCHANGED poolVars
    /\ UNCHANGED <<active_requests_, middleware_>>
    /\ UNCHANGED obsVars
    /\ UNCHANGED streamVars
    /\ UNCHANGED <<running_, use_socket_>>
    /\ UNCHANGED <<featVars, readVars, ideVars>>

(***************************************************************************)
(* analysis::Lexer and features::CompletionProvider                        *)
(***************************************************************************)

\* the bytes documents are made of: an ASCII letter, a digit, the blank, the
\* newline, the double quote, '#', the operator character '=', the
\* punctuation character '(', '@' (no character of the language), 0xD9 (the
\* lead byte of a two-byte UTF-8 sequence) and 0x85 (a continuation byte;
\* 0xD9 0x85 is the Arabic letter meem)
Bytes == {"a", "1", "sp", "nl", "q", "#", "=", "(", "@", "D9", "85"}

\* the documents: every byte string of up to MaxLen bytes
Sources == UNION {[1..n -> Bytes] : n \in 0..MaxLen}

\* Lexer::isAtEnd
isAtEnd(lx) == lx.pos_ >= Len(lx.source_)

\* Lexer::utf8CharLength, from the first byte alone
utf8CharLength(byte) == IF byte = "D9" THEN 2 ELSE 1

\* Lexer::readUtf8Char: an ASCII byte is the character; 0xD9 with a byte
\* after it decodes, whatever that byte is, to a code point of U+0640..U+067F,
\* an Arabic letter; 0xD9 as the last byte, and 0x85, come back as the byte
readUtf8Char(lx) ==
    LET first == lx.source_[lx.pos_ + 1] IN
    IF first = "D9" /\ lx.pos_ + 1 < Len(lx.source_) THEN "arabic" ELSE first

\* Lexer::getCurrentChar
getCurrentChar(lx) == IF isAtEnd(lx) THEN "nul" ELSE readUtf8Char(lx)

\* Lexer::getPosition
getPosition(lx) == Position(lx.line_, lx.column_, lx.pos_)

\* Lexer::advance with updatePosition: pos_ moves by the length the first
\* byte announces, also when the source holds fewer bytes
advance(lx) ==
    IF isAtEnd(lx) THEN lx
    ELSE [lx EXCEPT !.pos_ = @ + utf8CharLength(lx.source_[lx.pos_ + 1]),
                    !.line_ = IF readUtf8Char(lx) = "nl" THEN @ + 1 ELSE @,
                    !.column_ = IF readUtf8Char(lx) = "nl" THEN 1 ELSE @ + 1]

\* isDigit, isIdentifierStart, isIdentifierContinue (Token.cpp),
\* Lexer::isOperatorChar, Lexer::isPunctuationChar on the characters above
isDigit(ch) == ch = "1"
isIdentifierStart(ch) == ch \in {"a", "arabic"}
isIdentifierContinue(ch) == isIdentifierStart(ch) \/ ch = "1"
isOperatorChar(ch) == ch = "="
isPunctuationChar(ch) == ch = "("

\* every character getCurrentChar can return before the end
Chars == Bytes \cup {"arabic"}

\* the loops of skipWhitespace, tokenizeNumber, tokenizeIdentifier and
\* tokenizeComment: advance while the current character is one of chars
RECURSIVE AdvanceWhile(_, _)
AdvanceWhile(lx, chars) ==
    IF ~isAtEnd(lx) /\ getCurrentChar(lx) \in chars
    THEN AdvanceWhile(advance(lx), chars)
    ELSE lx

skipWhitespace(lx) == AdvanceWhile(lx, {"sp", "nl"})

\* the loop of tokenizeString after the opening quote: up to and including
\* the closing quote, or to the end of the source
RECURSIVE StringContent(_)
StringContent(lx) ==
    IF isAtEnd(lx) THEN lx
    ELSE IF getCurrentChar(lx) = "q" THEN advance(lx)
    ELSE StringContent(advance(lx))

\* struct Token: its type and its range
LexToken(type, start, end) == [type |-> type, start |-> start, end |-> end]

\* Lexer::tokenizeOperator: one character, two for "=="
tokenizeOperator(lx) ==
    LET one == advance(lx) IN
    IF ~isAtEnd(one) /\ getCurrentChar(lx) = "=" /\ getCurrentChar(one) = "="
    THEN advance(one) ELSE one

\* Lexer::nextToken: the lexer afterwards and the token returned
nextToken(lx) ==
    LET ws == skipWhitespace(lx)
        ch == getCurrentChar(ws)
        after == CASE isDigit(ch) -> AdvanceWhile(ws, {"1"})
                   [] isIdentifierStart(ch) -> AdvanceWhile(ws, {"a", "arabic", "1"})
                   [] ch = "q" -> StringContent(advance(ws))
                   [] ch = "#" -> AdvanceWhile(ws, Chars \ {"nl"})
                   [] isOperatorChar(ch) -> tokenizeOperator(ws)
                   [] isPunctuationChar(ch) -> advance(ws)
                   [] OTHER -> [advance(ws) EXCEPT !.errors_ = Append(@, getPosition(ws))]
        type == CASE isDigit(ch) -> "Number"
                  [] isIdentifierStart(ch) -> "Identifier"
                  [] ch = "q" -> "String"
                  [] ch = "#" -> "Comment"
                  [] isOperatorChar(ch) -> "Operator"
                  [] isPunctuationChar(ch) -> "Punctuation"
                  [] OTHER -> "Invalid"
    IN IF isAtEnd(ws)
       THEN [lexer |-> ws, token |-> LexToken("EndOfFile", getPosition(ws), getPosition(ws))]
       ELSE [lexer |-> after, token |-> LexToken(type, getPosition(ws), getPosition(after))]

\* the last token pushed is EndOfFile
EndsWithEof(toks) == Len(toks) > 0 /\ toks[Len(toks)].type = "EndOfFile"

\* CompletionProvider::createContext: lexer_.reset(documentContent), and the
\* entry of Lexer::tokenize
reset(source) ==
    /\ lexer_.pc = "ready"
    /\ lexer_' = [Lexer(source) EXCEPT !.pc = "loop"]
    /\ UNCHANGED <<poolVars, dispVars, obsVars, streamVars, loopVars, completion, catalog, readVars, ideVars>>

\* Lexer::tokenize, one turn of its loop: nextToken; the token is pushed
\* unless it is Invalid
TokenizeStep ==
    /\ lexer_.pc = "loop"
    /\ ~isAtEnd(lexer_)
    /\ ~EndsWithEof(lexer_.tokens_)
    /\ LET r == nextToken(lexer_) IN
       lexer_' = [r.lexer EXCEPT !.tokens_ =
                    IF r.token.type # "Invalid" THEN Append(@, r.token) ELSE @]
    /\ UNCHANGED <<poolVars, dispVars, obsVars, streamVars, loopVars, completion, catalog, readVars, ideVars>>

\* Lexer::tokenize after its loop: when the last token is not EndOfFile one
\* is made by createToken(EndOfFile, eofPos, eofPos), which takes
\* source_.substr(pos_, 0): std::out_of_range when pos_ is beyond the end
TokenizeReturn ==
    /\ lexer_.pc = "loop"
    /\ isAtEnd(lexer_) \/ EndsWithEof(lexer_.tokens_)
    /\ lexer_' =
         IF EndsWithEof(lexer_.tokens_) THEN [lexer_ EXCEPT !.pc = "done"]
         ELSE IF lexer_.pos_ > Len(lexer_.source_) THEN [lexer_ EXCEPT !.pc = "thrown"]
         ELSE [lexer_ EXCEPT !.pc = "done",
                  !.tokens_ = Append(@, LexToken("EndOfFile", getPosition(lexer_),
                                                  getPosition(lexer_)))]
    /\ UNCHANGED <<poolVars, dispVars, obsVars, streamVars, loopVars, completion, catalog, readVars, ideVars>>

\* ArabicCompletionDatabase::getAllCompletions: the first two entries of
\* getIOCompletions stand for the database; the Arabic name of an entry, which
\* is its label and its filter text too, is a string of two-byte characters
ArabicCompletions ==
    {[englishName |-> "print", arabicName |-> <<"D9", "85">>],
     [englishName |-> "read", arabicName |-> <<"D9", "85", "D9", "85">>]}

\* handleCompletionRequest: std::string documentContent = ""
documentContent == <<>>

\* the lines std::getline takes from content, without their newlines
RECURSIVE SplitLines(_)
SplitLines(content) ==
    IF \A i \in 1..Len(content) : content[i] # "nl" THEN <<content>>
    ELSE LET k == CHOOSE i \in 1..Len(content) :
                    content[i] = "nl" /\ \A j \in 1..(i - 1) : content[j] # "nl"
         IN <<SubSeq(content, 1, k - 1)>> \o SplitLines(SubSeq(content, k + 1, Len(content)))

\* std::isalnum(ch) || ch == '_' on the bytes above
IsWordByte(byte) == byte \in {"a", "1"}

\* CompletionProvider::getCurrentWord: the line of the cursor, or the last
\* line read when the content has fewer lines; nothing when the cursor is
\* beyond the line, else the bytes of the word around the cursor
getCurrentWord(content, line, character) ==
    LET lines == SplitLines(content)
        currentLine == lines[IF line + 1 <= Len(lines) THEN line + 1 ELSE Len(lines)]
        start == CHOOSE st \in 0..character :
                    /\ \A i \in (st + 1)..character : IsWordByte(currentLine[i])
                    /\ st > 0 => ~IsWordByte(currentLine[st])
        end == CHOOSE e \in character..Len(currentLine) :
                    /\ \A i \in (character + 1)..e : IsWordByte(currentLine[i])
                    /\ e < Len(currentLine) => ~IsWordByte(currentLine[e + 1])
    IN IF character > Len(currentLine) THEN <<>>
       ELSE SubSeq(currentLine, start + 1, end)

\* std::string::find(prefix) == 0
StartsWith(text, prefix) ==
    Len(prefix) <= Len(text) /\ SubSeq(text, 1, Len(prefix)) = prefix

\* std::string::find(prefix) != npos
Contains(text, prefix) ==
    \E i \in 0..(Len(text) - Len(prefix)) : SubSeq(text, i + 1, i + Len(prefix)) = prefix

\* CompletionProvider::filterArabicCompletions: every item for the empty
\* prefix; else the items whose name starts with the prefix or, the fuzzy
\* match, holds it
filterArabicCompletions(items, prefix) ==
    IF prefix = <<>> THEN items
    ELSE {item \in items : \/ StartsWith(item.arabicName, prefix)
                           \/ Contains(item.arabicName, prefix)}

\* CompletionProvider::provideArabicCompletions: the database filtered by
\* the current word of the context; no look at the tokens under the cursor
provideArabicCompletions(currentWord) ==
    filterArabicCompletions(ArabicCompletions, currentWord)

\* LspServer::Impl::handleCompletionRequest for a request with position
\* (line, character): createArabicContext over the empty documentContent,
\* provideArabicCompletions, respond with the list
handleCompletionRequest(line, character) ==
    /\ ~completion.served
    /\ completion' = [line |-> line, character |-> character, served |-> TRUE,
                      items |-> provideArabicCompletions(
                                   getCurrentWord(documentContent, line, character))]
    /\ UNCHANGED <<poolVars, dispVars, obsVars, streamVars, loopVars, lexer_, catalog, readVars, ideVars>>

(***************************************************************************)
(* JsonRpcProtocol::readMessage: the Content-Length header line            *)
(***************************************************************************)
\* the characters a header line is made of after its first 14 characters
\* "Content-Length": the colon, the space, the minus sign, two digits and
\* a letter
HeaderChars == {":", " ", "-", "1", "2", "x"}

\* the header lines that pass header_line.rfind("Content-Length", 0) == 0,
\* each given by what follows the 14 characters
HeaderRests == UNION {[1..n -> HeaderChars] : n \in 0..MaxRest}

IsDecimal(c) == c \in {"1", "2"}

DecimalValue(c) == IF c = "1" THEN 1 ELSE 2

\* what std::stoll and std::string::substr give: a value, or an exception
Parsed(value) == [thrown |-> FALSE, value |-> value]
Thrown == [thrown |-> TRUE, value |-> 0 - 1]

\* std::isspace prefix skipped by std::strtoll
RECURSIVE SkipSpaces(_)
SkipSpaces(s) == IF s # <<>> /\ Head(s) = " " THEN SkipSpaces(Tail(s)) ELSE s

\* the decimal digits std::strtoll consumes at the head of s: their value
\* and their number
RECURSIVE LeadingDigits(_, _, _)
LeadingDigits(s, acc, k) ==
    IF s # <<>> /\ IsDecimal(Head(s))
    THEN LeadingDigits(Tail(s), acc * 10 + DecimalValue(Head(s)), k + 1)
    ELSE [value |-> acc, digits |-> k]

\* std::stoll(s): leading white space, an optional sign, then digits;
\* what follows the digits is ignored; std::invalid_argument when there
\* is no digit at that place
stoll(s) ==
    LET t == SkipSpaces(s)
        neg == t # <<>> /\ Head(t) = "-"
        d == LeadingDigits(IF neg THEN Tail(t) ELSE t, 0, 0)
    IN IF d.digits = 0 THEN Thrown
       ELSE Parsed(IF neg THEN 0 - d.value ELSE d.value)

\* std::stoll(header_line.substr(16)): substr throws std::out_of_range for
\* a line of fewer than 16 characters, and the line has 14 + Len(rest)
ContentLength(rest) ==
    IF 14 + Len(rest) < 16 THEN Thrown
    ELSE stoll(SubSeq(rest, 3, Len(rest)))

\* the number a well-formed line announces: after the colon and optional
\* spaces, digits up to the end of the line (0 - 1 if the line is not of
\* that form); the peer sends that many payload bytes after the blank line
AllDecimal(s) == s # <<>> /\ \A i \in 1..Len(s) : IsDecimal(s[i])

Announced(rest) ==
    IF rest # <<>> /\ Head(rest) = ":" /\ AllDecimal(SkipSpaces(Tail(rest)))
    THEN LeadingDigits(SkipSpaces(Tail(rest)), 0, 0).value
    ELSE 0 - 1

PayloadSent(rest) == IF Announced(rest) < 0 THEN 0 ELSE Announced(rest)

\* the payload of a frame of the right length: a notification no handler
\* is registered for
SomeNotification == Json("object", "2.0", "no/such", FALSE, FALSE, 0)

\* one turn of the loop of LspServer::Impl::runStdio on a frame whose
\* header is the line "Content-Length" + rest, followed by the blank line
\* and PayloadSent(rest) bytes:
\*   stoll or substr throws: writeError(-32700), no message, the loop ends;
\*   content_length = -1: connected_ = false, no message;
\*   content_length < -1: std::string(content_length, '\0') converts it to
\*     a size above max_size and throws std::length_error, which leaves
\*     readMessage and is caught by the loop, which goes on;
\*   otherwise content_length bytes are allocated and read: too few in the
\*     stream gives writeError and connected_ = false; else parseMessage
\*     gets the bytes, which are the whole payload only when content_length
\*     is the number of bytes sent
ReadHeaderLine(rest) ==
    /\ main = "loop" /\ running_ /\ connected_
    /\ header_line.pc = "idle"
    /\ LET n == ContentLength(rest)
           reply == writeRawMessage(wire, Frame(0, 0, "error", ParseError))
           m == IF n.thrown THEN ReadResult("nullopt", connected_, reply)
                ELSE IF n.value = 0 - 1 THEN ReadResult("nullopt", FALSE, wire)
                ELSE IF n.value < 0 THEN ReadResult("length_error", connected_, wire)
                ELSE IF PayloadSent(rest) < n.value THEN ReadResult("nullopt", FALSE, reply)
                ELSE IF PayloadSent(rest) = n.value THEN parseMessage(SomeNotification, wire)
                ELSE parseMessage(NotJson, wire)
           outcome == IF n.thrown THEN "invalid"
                      ELSE IF n.value = 0 - 1 THEN "disconnected"
                      ELSE IF n.value < 0 THEN "length_error"
                      ELSE IF PayloadSent(rest) < n.value THEN "short"
                      ELSE "payload" IN
        /\ header_line' = [pc |-> "done", rest |-> rest, content_length |-> n.value,
                           outcome |-> outcome,
                           allocated |-> ~n.thrown /\ n.value # 0 - 1]
        /\ connected_' = m.connected
        /\ wire' = m.out
        /\ main' = IF m.type = "nullopt" THEN "returned" ELSE "loop"
        /\ notes' = IF m.type = "Notification"
                    THEN Append(notes, Notification("no/such", 0, 0, "dropped"))
                    ELSE notes
    /\ UNCHANGED poolVars
    /\ UNCHANGED <<active_requests_, dstats_, reqs, middleware_>>
    /\ UNCHANGED obsVars
    /\ UNCHANGED streamVars
    /\ UNCHANGED <<running_, use_socket_, last_read>>
    /\ UNCHANGED <<featVars, ideVars>>

(***************************************************************************)
(* features::ArabicCompletionDatabase: the process-wide catalog            *)
(***************************************************************************)
\* the category lists initialize appends to s_allCompletions, one insert
\* each (io, control flow, data types, math, string, array, function,
\* class, error handling, file io)
Categories == 10

\* one more run of initialize past the test of s_initialized; runs beyond
\* the second are not told apart
Again(n) == IF n < 2 THEN n + 1 ELSE n

\* the threads that are between the clear and the store of s_initialized
\* in initialize, other than t
Populating(t) ==
    {u \in DOMAIN catalog.threads \ {t} :
        catalog.threads[u].pc \in {"clear", "insert", "set"}}

CatalogStep(t, pc, in_get, items, raced) ==
    [catalog.threads EXCEPT ![t] =
        [pc |-> pc, in_get |-> in_get, items |-> items, raced |-> raced]]

\* a completion request reaches CompletionProvider::provideArabicCompletions
\* on worker t and calls ArabicCompletionDatabase::initialize:
\* if (s_initialized) return
initialize(t) ==
    /\ catalog.threads[t].pc = "idle"
    /\ catalog' = [catalog EXCEPT
          !.populated = IF catalog.s_initialized THEN @ ELSE Again(@),
          !.threads = CatalogStep(t, IF catalog.s_initialized THEN "get" ELSE "clear",
                                  FALSE, 0, FALSE)]
    /\ UNCHANGED <<poolVars, dispVars, obsVars, streamVars, loopVars,
                   lexer_, completion, readVars, ideVars>>

\* initialize: s_allCompletions.clear()
InitializeClear(t) ==
    /\ catalog.threads[t].pc = "clear"
    /\ catalog' = [catalog EXCEPT
          !.s_allCompletions = 0,
          !.threads = CatalogStep(t, "insert", catalog.threads[t].in_get, 0, FALSE)]
    /\ UNCHANGED <<poolVars, dispVars, obsVars, streamVars, loopVars,
                   lexer_, completion, readVars, ideVars>>

\* initialize: one s_allCompletions.insert(end, ...); items counts the
\* inserts this thread has made
InitializeInsert(t) ==
    /\ catalog.threads[t].pc = "insert"
    /\ LET done == catalog.threads[t].items + 1 IN
       catalog' = [catalog EXCEPT
          !.s_allCompletions = @ + 1,
          !.threads = CatalogStep(t, IF done = Categories THEN "set" ELSE "insert",
                                  catalog.threads[t].in_get,
                                  IF done = Categories THEN 0 ELSE done, FALSE)]
    /\ UNCHANGED <<poolVars, dispVars, obsVars, streamVars, loopVars,
                   lexer_, completion, readVars, ideVars>>

\* initialize: s_initialized = true, and the return to the caller
InitializeReturn(t) ==
    /\ catalog.threads[t].pc = "set"
    /\ catalog' = [catalog EXCEPT
          !.s_initialized = TRUE,
          !.threads = CatalogStep(t, IF catalog.threads[t].in_get THEN "copy" ELSE "get",
                                  catalog.threads[t].in_get, 0, FALSE)]
    /\ UNCHANGED <<poolVars, dispVars, obsVars, streamVars, loopVars,
                   lexer_, completion, readVars, ideVars>>

\* ArabicCompletionDatabase::getAllCompletions:
\* if (!s_initialized) initialize()
getAllCompletions(t) ==
    /\ catalog.threads[t].pc = "get"
    /\ catalog' = [catalog EXCEPT
          !.populated = IF catalog.s_initialized THEN @ ELSE Again(@),
          !.threads = CatalogStep(t, IF catalog.s_initialized THEN "copy" ELSE "clear",
                                  TRUE, 0, FALSE)]
    /\ UNCHANGED <<poolVars, dispVars, obsVars, streamVars, loopVars,
                   lexer_, completion, readVars, ideVars>>

\* getAllCompletions: return s_allCompletions, a copy of the vector. While
\* another thread clears or appends to the vector the copy is a data race:
\* it may see any part of the list
CopyCompletions(t) ==
    /\ catalog.threads[t].pc = "copy"
    /\ \E seen \in 0..catalog.s_allCompletions :
        /\ Populating(t) = {} => seen = catalog.s_allCompletions
        /\ catalog' = [catalog EXCEPT
              !.threads = CatalogStep(t, "done", FALSE, seen, Populating(t) # {})]
    /\ UNCHANGED <<poolVars, dispVars, obsVars, streamVars, loopVars,
                   lexer_, completion, readVars, ideVars>>

\* the handler has responded; the worker takes the next completion request
CompletionServed(t) ==
    /\ catalog.threads[t].pc = "done"
    /\ catalog' = [catalog EXCEPT !.threads = CatalogStep(t, "idle", FALSE, 0, FALSE)]
    /\ UNCHANGED <<poolVars, dispVars, obsVars, streamVars, loopVars,
                   lexer_, completion, readVars, ideVars>>

(***************************************************************************)
(* DocumentManager (Source/LspClient): documents and their pending changes *)
(***************************************************************************)
\* DocumentManager::MAX_PENDING_CHANGES
MAX_PENDING_CHANGES == 100

\* QMutexLocker locker(&m_documentsMutex) at the head of a call made while
\* the mutex is free, and the unlock at its return; a call that is left
\* waiting for the mutex does not return and does not unlock
LockDocuments(d) == [d EXCEPT !.m_documentsMutex = "held"]

ReturnDocuments(d) ==
    IF d.waiting # "none" THEN d ELSE [d EXCEPT !.m_documentsMutex = "free"]

\* DocumentManager::calculateIncrementalChanges: the number of changes, one
\* Replace of the whole text when the texts differ
calculateIncrementalChanges(oldText, newText) == IF oldText # newText THEN 1 ELSE 0

\* DocumentManager::sendChangesToServer(uri, changes) called from call, with
\* ready = m_protocol->isReady(): nothing without protocol, when it is not
\* ready or for no changes; else QMutexLocker locker(&m_documentsMutex), a
\* QMutex that is not recursive: if the thread already holds it the lock
\* never returns; else didChange is sent and pendingChanges cleared
sendChangesToServer(d, uri, changes, ready, call) ==
    IF ~d.m_protocol \/ ~ready \/ changes = 0 THEN d
    ELSE IF d.m_documentsMutex = "held" THEN [d EXCEPT !.waiting = call]
    ELSE IF ~d.m_documents[uri].isOpen THEN d
    ELSE [d EXCEPT !.m_documents[uri].pendingChanges = 0]

\* DocumentManager::closeDocument as a function of the manager's state
CloseDocument(d, uri, ready) ==
    IF d.waiting # "none" \/ ~d.m_documents[uri].isOpen THEN d
    ELSE LET sent == sendChangesToServer(LockDocuments(d), uri,
                         d.m_documents[uri].pendingChanges, ready, "closeDocument")
         IN ReturnDocuments(
               IF sent.waiting # "none" THEN sent
               ELSE [sent EXCEPT !.m_documents[uri] = NoDocument])

\* DocumentManager::shutdown: the timer is stopped, every open document is
\* closed, then m_documents is cleared and m_protocol set to nullptr
RECURSIVE CloseAll(_, _, _)
CloseAll(d, uris, ready) ==
    IF uris = {} THEN d
    ELSE LET uri == CHOOSE u \in uris : \A v \in uris : u <= v
         IN CloseAll(CloseDocument(d, uri, ready), uris \ {uri}, ready)

ShutdownDocuments(d, ready) ==
    LET closed == CloseAll([d EXCEPT !.m_autoSyncTimer = FALSE], Uris, ready)
    IN IF closed.waiting # "none" THEN closed
       ELSE [closed EXCEPT !.m_documents = [uri \in Uris |-> NoDocument],
                           !.m_protocol = FALSE]

\* the editor's thread is inside a call that waits for m_documentsMutex
DocumentsBlocked == m_documents.waiting # "none"

\* DocumentManager::initialize(protocol)
DocumentManagerInitialize ==
    /\ ~DocumentsBlocked
    /\ m_documents' = [m_documents EXCEPT !.m_protocol = TRUE, !.m_autoSyncTimer = TRUE]
    /\ UNCHANGED <<poolVars, dispVars, obsVars, streamVars, loopVars, featVars,
                   readVars, m_process, m_client>>

\* DocumentManager::openDocument(uri, languageId, content, nullptr)
openDocument(uri, content) ==
    /\ ~DocumentsBlocked
    /\ m_documents' =
          IF m_documents.m_documents[uri].isOpen THEN m_documents
          ELSE [m_documents EXCEPT !.m_documents[uri] =
                   [isOpen |-> TRUE, content |-> content, pendingChanges |-> 0]]
    /\ UNCHANGED <<poolVars, dispVars, obsVars, streamVars, loopVars, featVars,
                   readVars, m_process, m_client>>

\* DocumentManager::closeDocument(uri)
closeDocument(uri, ready) ==
    /\ ~DocumentsBlocked
    /\ m_documents' = CloseDocument(m_documents, uri, ready)
    /\ UNCHANGED <<poolVars, dispVars, obsVars, streamVars, loopVars, featVars,
                   readVars, m_process, m_client>>

\* DocumentManager::updateDocument(uri, content): m_incrementalSyncEnabled
\* is true; the incremental branch for a document with text, the full
\* replacement for an empty one
updateDocument(uri, content, ready) ==
    /\ ~DocumentsBlocked
    /\ m_documents.m_documents[uri].pendingChanges < MaxPending
    /\ LET state == m_documents.m_documents[uri]
           changes == calculateIncrementalChanges(state.content, content)
           locked == LockDocuments(m_documents) IN
       m_documents' =
          IF ~state.isOpen THEN m_documents
          ELSE IF state.content # ""
          THEN (IF changes = 0 THEN m_documents
                ELSE ReturnDocuments(sendChangesToServer(
                        [locked EXCEPT !.m_documents[uri] =
                            [isOpen |-> TRUE, content |-> content,
                             pendingChanges |-> state.pendingChanges + changes]],
                        uri, changes, ready, "updateDocument")))
          ELSE [m_documents EXCEPT !.m_documents[uri] =
                   [isOpen |-> TRUE, content |-> content,
                    pendingChanges |-> IF m_documents.m_protocol /\ ready
                                       THEN 0 ELSE state.pendingChanges]]
    /\ UNCHANGED <<poolVars, dispVars, obsVars, streamVars, loopVars, featVars,
                   readVars, m_process, m_client>>

\* DocumentManager::applyChange(uri, ..., text): a Replace change
applyChange(uri, text, ready) ==
    /\ ~DocumentsBlocked
    /\ m_documents.m_documents[uri].pendingChanges < MaxPending
    /\ LET state == m_documents.m_documents[uri]
           changed == [LockDocuments(m_documents) EXCEPT !.m_documents[uri] =
                          [isOpen |-> TRUE, content |-> text,
                           pendingChanges |-> state.pendingChanges + 1]] IN
       m_documents' =
          IF ~state.isOpen THEN m_documents
          ELSE IF state.pendingChanges + 1 >= MAX_PENDING_CHANGES
          THEN ReturnDocuments(sendChangesToServer(changed, uri,
                                  state.pendingChanges + 1, ready, "applyChange"))
          ELSE ReturnDocuments(changed)
    /\ UNCHANGED <<poolVars, dispVars, obsVars, streamVars, loopVars, featVars,
                   readVars, m_process, m_client>>

\* DocumentManager::onAutoSyncTimer: for every document with pending
\* changes the mutex is unlocked around sendChangesToServer
RECURSIVE SyncAll(_, _, _)
SyncAll(d, uris, ready) ==
    IF uris = {} THEN d
    ELSE LET uri == CHOOSE u \in uris : \A v \in uris : u <= v
         IN SyncAll(sendChangesToServer(d, uri, d.m_documents[uri].pendingChanges,
                                        ready, "onAutoSyncTimer"),
                    uris \ {uri}, ready)

onAutoSyncTimer(ready) ==
    /\ ~DocumentsBlocked
    /\ m_documents.m_autoSyncTimer
    /\ m_documents' = SyncAll(m_documents, Uris, ready)
    /\ UNCHANGED <<poolVars, dispVars, obsVars, streamVars, loopVars, featVars,
                   readVars, m_process, m_client>>

\* DocumentManager::shutdown
shutdown(ready) ==
    /\ ~DocumentsBlocked
    /\ m_documents' = ShutdownDocuments(m_documents, ready)
    /\ UNCHANGED <<poolVars, dispVars, obsVars, streamVars, loopVars, featVars,
                   readVars, m_process, m_client>>

(***************************************************************************)
(* LspProcess, LspProtocol, SpectrumLspClient (Source/LspClient)           *)
(***************************************************************************)
\* LspProcess::MAX_RESTART_ATTEMPTS
MAX_RESTART_ATTEMPTS == 3

\* the objects of the client as one value: p the LspProcess, c the
\* SpectrumLspClient with its LspProtocol, d the DocumentManager, ret what
\* the last call of LspProcess::start returned
Ide(p, c, d) == [p |-> p, c |-> c, d |-> d, ret |-> FALSE]

\* the GUI thread, on which all of these run, waits for a mutex for ever
Blocked(S) == S.p.waiting # "none" \/ S.d.waiting # "none"

\* LspProcess::isRunning as called from f: it locks m_stateMutex
isRunning(S) == S.p.m_state = "Running"

\* LspProtocol::isReady
isReady(S) == S.c.m_protocol.m_initialized /\ S.c.m_protocol.m_ready /\ isRunning(S)

\* LspProtocol::sendMessage: nothing without process or when the process
\* is not running (isRunning locks m_stateMutex); else the server receives
\* the message
sendMessage(S, method) ==
    IF Blocked(S) \/ ~S.c.m_protocol.m_process THEN S
    ELSE IF S.p.m_stateMutex = "held" THEN [S EXCEPT !.p.waiting = "isRunning"]
    ELSE IF ~isRunning(S) THEN S
    ELSE [S EXCEPT !.c.server = @ \cup {method}]

\* SpectrumLspClient::onServerProcessStateChanged: m_process->getState(),
\* which locks m_stateMutex, a QMutex that is not recursive; Running while
\* Connecting starts the handshake; Crashed or Stopped outside a shutdown
\* makes the client reconnect
onServerProcessStateChanged(S) ==
    IF Blocked(S) THEN S
    ELSE IF S.p.m_stateMutex = "held" THEN [S EXCEPT !.p.waiting = "getState"]
    ELSE IF S.p.m_state = "Running"
    THEN (IF S.c.m_connectionState = "Connecting"
          THEN sendMessage([S EXCEPT !.c.m_connectionState = "Initializing"], "initialize")
          ELSE S)
    ELSE IF S.p.m_state \in {"Crashed", "Stopped"}
    THEN (IF S.c.m_connectionState # "ShuttingDown"
          THEN [S EXCEPT !.c.m_connectionState = "Reconnecting",
                         !.c.singleShots = @ \cup {"restartServer"}]
          ELSE S)
    ELSE S

\* LspProcess::setState: emit stateChanged when the state changes; a
\* direct connection runs the slot inside the emit, a queued one posts it
setState(S, state) ==
    IF Blocked(S) \/ S.p.m_state = state THEN S
    ELSE LET T == [S EXCEPT !.p.m_state = state] IN
         IF T.p.connection = "direct" THEN onServerProcessStateChanged(T)
         ELSE [T EXCEPT !.p.posted = @ + 1]

\* the event loop delivers the posted slot invocations once the handler
\* that emitted them has returned
RECURSIVE Deliver(_)
Deliver(S) ==
    IF Blocked(S) \/ S.p.posted = 0 THEN S
    ELSE Deliver(onServerProcessStateChanged([S EXCEPT !.p.posted = @ - 1]))

\* LspProcess::start(serverPath, arguments), exists telling whether the
\* executable is there: under m_stateMutex, false unless Stopped, false
\* for a missing executable, else setState(Starting) and QProcess::start
ProcessStart(S, exists) ==
    IF Blocked(S) THEN S
    ELSE IF S.p.m_state # "Stopped" \/ ~exists THEN [S EXCEPT !.ret = FALSE]
    ELSE LET T == setState([S EXCEPT !.p.m_stateMutex = "held", !.p.call = "start"],
                           "Starting") IN
         IF Blocked(T) THEN T
         ELSE [T EXCEPT !.p.qprocess = "Starting", !.p.m_stateMutex = "free",
                        !.p.call = "none", !.ret = TRUE]

\* LspProcess::scheduleRestart
scheduleRestart(S) ==
    IF S.p.m_restartAttempts >= MAX_RESTART_ATTEMPTS THEN S
    ELSE [S EXCEPT !.p.m_restartTimer = TRUE]

\* LspProcess::onProcessError: the last error is stored under
\* m_stateMutex; FailedToStart and Crashed set the state Crashed
onProcessError(S, processError) ==
    IF Blocked(S) THEN S
    ELSE IF S.p.m_stateMutex = "held" THEN [S EXCEPT !.p.waiting = "onProcessError"]
    ELSE IF processError \in {"FailedToStart", "Crashed"} THEN setState(S, "Crashed")
    ELSE S

\* LspProcess::onProcessFinished: Stopped after a requested stop; else
\* Crashed, and the restart is scheduled (m_autoRestart is true) while
\* attempts are left
onProcessFinished(S) ==
    IF Blocked(S) THEN S
    ELSE IF S.p.m_state = "Stopping" THEN setState(S, "Stopped")
    ELSE LET T == setState(S, "Crashed") IN
         IF Blocked(T) \/ T.p.m_restartAttempts >= MAX_RESTART_ATTEMPTS THEN T
         ELSE scheduleRestart(T)

\* the QProcess ends with exitStatus: errorOccurred(Crashed) for a
\* CrashExit, then finished
ProcessDied(S, exitStatus) ==
    LET T == [S EXCEPT !.p.qprocess = "NotRunning"] IN
    onProcessFinished(IF exitStatus = "CrashExit" THEN onProcessError(T, "Crashed") ELSE T)

\* LspProcess::stop: under m_stateMutex, nothing when Stopped or Stopping,
\* else setState(Stopping), the timers stopped, a running QProcess
\* terminated and waited for (its signals are emitted inside the wait),
\* setState(Stopped)
ProcessStop(S, exitStatus) ==
    IF Blocked(S) \/ S.p.m_state \in {"Stopped", "Stopping"} THEN S
    ELSE LET A == setState([S EXCEPT !.p.m_stateMutex = "held", !.p.call = "stop"],
                           "Stopping")
             B == IF Blocked(A) THEN A ELSE [A EXCEPT !.p.m_restartTimer = FALSE]
             C == IF Blocked(B) \/ B.p.qprocess # "Running" THEN B
                  ELSE ProcessDied(B, exitStatus)
             D == setState(C, "Stopped") IN
         IF Blocked(D) THEN D
         ELSE [D EXCEPT !.p.m_stateMutex = "free", !.p.call = "none"]

\* SpectrumLspClient::start
ClientStart(S, exists) ==
    IF Blocked(S) \/ S.c.m_connectionState # "Disconnected" THEN S
    ELSE LET T == ProcessStart([S EXCEPT !.c.m_connectionState = "Connecting"], exists) IN
         IF Blocked(T) THEN T
         ELSE IF ~T.ret THEN [T EXCEPT !.c.m_connectionState = "Disconnected"]
         ELSE [T EXCEPT !.c.m_connectionTimer = TRUE]

\* SpectrumLspClient::stop: ShuttingDown, the timers stopped,
\* DocumentManager::shutdown, LspProtocol::shutdown, LspProcess::stop,
\* Disconnected
ClientStop(S, exitStatus) ==
    IF Blocked(S) \/ S.c.m_connectionState = "Disconnected" THEN S
    ELSE LET A == [S EXCEPT !.c.m_connectionState = "ShuttingDown",
                            !.c.m_connectionTimer = FALSE,
                            !.c.m_healthTimer = FALSE]
             B == [A EXCEPT !.d = ShutdownDocuments(A.d, isReady(A))]
             C == IF Blocked(B) THEN B
                  ELSE ProcessStop([B EXCEPT !.c.m_protocol.m_process = FALSE,
                                             !.c.m_protocol.m_initialized = FALSE],
                                   exitStatus) IN
         IF Blocked(C) THEN C ELSE [C EXCEPT !.c.m_connectionState = "Disconnected"]

\* SpectrumLspClient::onInitializeResponse for a response without error
onInitializeResponse(S) ==
    LET A == sendMessage([S EXCEPT !.c.m_connectionTimer = FALSE], "initialized") IN
    IF Blocked(A) THEN A
    ELSE [A EXCEPT !.c.m_protocol.m_ready = TRUE, !.c.m_healthTimer = TRUE,
                   !.c.m_connectionState = "Connected"]

\* the response of the server to a request: jsonrpc, id and result
Response(id) == Json("object", "2.0", "absent", TRUE, FALSE, id)

\* QJsonObject::operator[] for "method" followed by toString(): the empty
\* string when the object has no such member
MethodOf(message) == IF message.method = "absent" THEN "" ELSE message.method

\* LspProtocol::parseMessage on a complete message: a message with id and
\* result is a response, and initializeResponseReceived is emitted when its
\* "method" is "initialize"
ParseMessage(S, message) ==
    IF message.id # 0 /\ message.has_result /\ MethodOf(message) = "initialize"
    THEN onInitializeResponse([S EXCEPT !.c.initializeResponseReceived = TRUE])
    ELSE S

\* the three objects as they are, and the step that makes them S
IdeNow == Ide(m_process, m_client, m_documents)

IdeStep(S) ==
    LET T == Deliver(S) IN
    /\ m_process' = T.p
    /\ m_client' = T.c
    /\ m_documents' = T.d
    /\ UNCHANGED <<poolVars, dispVars, obsVars, streamVars, loopVars, featVars, readVars>>

\* SpectrumLspClient::initialize: the objects are created, stateChanged is
\* connected to onServerProcessStateChanged (Qt::AutoConnection: direct
\* when the signal is emitted on the receiver's thread, queued otherwise)
\* and LspProtocol::initialize(process) is called
ClientInitialize(connection) ==
    /\ m_process.connection = "none"
    /\ IdeStep([IdeNow EXCEPT !.p.connection = connection,
                              !.c.m_protocol = [m_process |-> TRUE, m_initialized |-> TRUE,
                                                m_ready |-> FALSE]])

\* the application calls SpectrumLspClient::start
start(exists) ==
    /\ m_process.connection # "none" /\ ~Blocked(IdeNow)
    /\ IdeStep(ClientStart(IdeNow, exists))

\* the application calls SpectrumLspClient::stop
ClientStopped(exitStatus) ==
    /\ m_process.connection # "none" /\ ~Blocked(IdeNow)
    /\ IdeStep(ClientStop(IdeNow, exitStatus))

\* QProcess::started: LspProcess::onProcessStarted
onProcessStarted ==
    /\ m_process.qprocess = "Starting" /\ ~Blocked(IdeNow)
    /\ IdeStep([setState([IdeNow EXCEPT !.p.qprocess = "Running"], "Running")
                   EXCEPT !.p.m_restartAttempts = 0])

\* QProcess::errorOccurred(FailedToStart)
ProcessFailedToStart ==
    /\ m_process.qprocess = "Starting" /\ ~Blocked(IdeNow)
    /\ IdeStep(onProcessError([IdeNow EXCEPT !.p.qprocess = "NotRunning"], "FailedToStart"))

\* the server process exits without having been asked to
ProcessExited(exitStatus) ==
    /\ m_process.qprocess = "Running" /\ ~Blocked(IdeNow)
    /\ IdeStep(ProcessDied(IdeNow, exitStatus))

\* LspProcess::onRestartTimer: one more attempt, then start(m_serverPath,
\* m_arguments) for the executable that was started before
onRestartTimer ==
    /\ m_process.m_restartTimer /\ ~Blocked(IdeNow)
    /\ IdeStep(ProcessStart([IdeNow EXCEPT !.p.m_restartTimer = FALSE,
                                           !.p.m_restartAttempts = @ + 1], TRUE))

\* the server answers the initialize request it has received
ServerAnswers ==
    /\ "initialize" \in m_client.server /\ m_process.qprocess = "Running"
    /\ m_client.pipe = "none"
    /\ IdeStep([IdeNow EXCEPT !.c.server = @ \ {"initialize"}, !.c.pipe = "result"])

\* LspProtocol::onDataReceived, connected while the protocol has its
\* process: the data is read and parseMessage runs on the message
onDataReceived ==
    /\ m_client.pipe = "result" /\ m_client.m_protocol.m_process /\ ~Blocked(IdeNow)
    /\ IdeStep(ParseMessage([IdeNow EXCEPT !.c.pipe = "none"], Response(1)))

\* SpectrumLspClient::onConnectionTimeout
onConnectionTimeout(exitStatus) ==
    /\ m_client.m_connectionTimer /\ ~Blocked(IdeNow)
    /\ LET S == [IdeNow EXCEPT !.c.m_connectionTimer = FALSE] IN
       IdeStep(IF S.c.m_connectionState \in {"Connecting", "Initializing"}
               THEN ProcessStop([S EXCEPT !.c.m_connectionState = "Disconnected"], exitStatus)
               ELSE S)

\* SpectrumLspClient::restartServer, from QTimer::singleShot: stop unless
\* Disconnected, then start after a delay
restartServer(exitStatus) ==
    /\ "restartServer" \in m_client.singleShots /\ ~Blocked(IdeNow)
    /\ LET S == ClientStop([IdeNow EXCEPT !.c.singleShots = @ \ {"restartServer"}],
                           exitStatus) IN
       IdeStep(IF Blocked(S) THEN S ELSE [S EXCEPT !.c.singleShots = @ \cup {"start"}])

\* the lambda of restartServer: start()
RestartStart(exists) ==
    /\ "start" \in m_client.singleShots /\ ~Blocked(IdeNow)
    /\ IdeStep(ClientStart([IdeNow EXCEPT !.c.singleShots = @ \ {"start"}], exists))

Init ==
    /\ InitPool
    /\ InitDispatcher
    /\ InitServer
    /\ max_queue_size_ \in 1..MaxQueue
    /\ middleware_ = ServerMiddleware

Next ==
    \/ \E id \in RequestIds, m \in RequestMethods : DispatchRequest(id, m)
    \/ \E id \in RequestIds : DispatchNotification("$/cancelRequest", id)
    \/ DispatchNotification("textDocument/didOpen", 0)
    \/ \E id \in RequestIds : cancelRequest(id)
    \/ cancelAllRequests
    \/ \E w \in Workers : StartTask(w)
    \/ \E w \in Workers : ExecCheck(w)
    \/ \E w \in Workers, b \in HandlerBehaviours : ExecHandler(w, b)
    \/ \E w \in Workers : ExecStats(w)
    \/ \E w \in Workers : ExecNotification(w, FALSE)

Spec == Init /\ [][Next]_vars


InitP ==
    /\ InitPool
    /\ max_queue_size_ = MaxQueue
    /\ InitDispatcher
    /\ InitServer
    /\ middleware_ = <<>>

NextPool ==
    \/ \E p \in PoolPriorities, th \in {0, 1} : Submit(p, th)
    \/ \E p \in PoolPriorities, th \in {0, 1} : SubmitCancellable(p, th)
    \/ \E k \in 1..MaxTasks : SetToken(k)
    \/ cancelAllTasks
    \/ Shutdown
    \/ \E w \in Workers : Dequeue(w)
    \/ \E w \in Workers : WorkerExit(w)
    \/ \E w \in Workers : BeginTask(w)
    \/ \E w \in Workers : WorkerCheck(w)
    \/ \E w \in Workers : WrapperCheck(w)
    \/ \E w \in Workers : RunPlain(w)
    \/ \E w \in Workers : EndTask(w)

SpecPool == InitP /\ [][NextPool]_vars

\* std::chrono::steady_clock advances
Tick ==
    /\ now < MaxClock
    /\ now' = now + 1
    /\ UNCHANGED <<task_queue_, tokens, stats_, workers_, active_threads_, stop_,
                   max_queue_size_, nextTid, executed>>
    /\ UNCHANGED dispVars
    /\ UNCHANGED obsVars
    /\ UNCHANGED streamVars
    /\ UNCHANGED loopVars
    /\ UNCHANGED <<featVars, readVars, ideVars>>

\* testTaskPriorities: ThreadPool pool(1, 100), a single worker and a queue
\* that never fills; tasks of every priority are submitted while the clock
\* runs
InitOrder ==
    /\ ThreadPoolInit(1)
    /\ max_queue_size_ = MaxTasks
    /\ InitDispatcher
    /\ InitServer
    /\ middleware_ = <<>>

NextOrder ==
    \/ \E p \in Priorities : Submit(p, 0)
    \/ Tick
    \/ \E w \in Workers : Dequeue(w)
    \/ \E w \in Workers : BeginTask(w)
    \/ \E w \in Workers : WorkerCheck(w)
    \/ \E w \in Workers : WrapperCheck(w)
    \/ \E w \in Workers : RunPlain(w)
    \/ \E w \in Workers : EndTask(w)

SpecOrder == InitOrder /\ [][NextOrder]_vars

\* a pool that serves without end. So that its states recur, the counters
\* of the statistics are followed up to MaxCount, a value that stands for
\* itself and every larger one; a Task gets the lowest number no Task in the
\* queue or on a worker bears; the invocations are not recorded; and
\* the clock is read relative to the oldest task in the queue, each call of
\* submit reading a later time than the calls before it
CountUp(n) == IF n < MaxCount THEN n + 1 ELSE MaxCount

TidsInUse ==
    {t.tid : t \in task_queue_} \cup {workers_[w].task.tid : w \in Workers}

FreeTid == CHOOSE tid \in 1..(MaxQueue + NumWorkers) : tid \notin TidsInUse

SteadyClock ==
    IF task_queue_ = {} THEN 0
    ELSE 1 + (CHOOSE m \in {t.submit_time : t \in task_queue_} :
                 \A t \in task_queue_ : t.submit_time <= m)
             - (CHOOSE m \in {t.submit_time : t \in task_queue_} :
                 \A t \in task_queue_ : t.submit_time >= m)

\* the tasks of the queue with their times counted from the oldest
Rebased(queue) ==
    LET oldest == CHOOSE m \in {t.submit_time : t \in queue} :
                     \A t \in queue : t.submit_time >= m
    IN {[t EXCEPT !.submit_time = @ - oldest] : t \in queue}

\* ThreadPool::submit(priority, f) in that pool: the task is queued, or the
\* call throws
SubmitSteady(priority) ==
    /\ IF SubmitOutcome = "Ok"
       THEN /\ task_queue_' = Rebased(task_queue_) \cup
                                {Task(FreeTid, priority, SteadyClock, 0, "plain", 0)}
            /\ stats_' = [stats_ EXCEPT !.submitted = CountUp(@)]
            /\ now' = SteadyClock
       ELSE UNCHANGED <<task_queue_, stats_, now>>
    /\ submit_result' = SubmitOutcome
    /\ UNCHANGED <<tokens, workers_, active_threads_, stop_, max_queue_size_, nextTid,
                   executed>>
    /\ UNCHANGED dispVars
    /\ UNCHANGED <<wait_result, dropped, resizing>>
    /\ UNCHANGED streamVars
    /\ UNCHANGED loopVars
    /\ UNCHANGED <<featVars, readVars, ideVars>>

\* the closure built by submitCancellable in that pool: (*task)(), which
\* returns, then stats_.completed++
RunSteady(w) ==
    /\ workers_[w].pc = "call"
    /\ workers_[w].task.kind = "plain"
    /\ executed' = executed
    /\ stats_' = [stats_ EXCEPT !.completed = CountUp(@)]
    /\ workers_' = [workers_ EXCEPT ![w].pc = "done"]
    /\ UNCHANGED <<task_queue_, tokens, active_threads_, stop_, max_queue_size_, now, nextTid>>
    /\ UNCHANGED dispVars
    /\ UNCHANGED obsVars
    /\ UNCHANGED streamVars
    /\ UNCHANGED loopVars
    /\ UNCHANGED <<featVars, readVars, ideVars>>

\* a worker thread of that pool takes its next step: every task returns
SteadyWorkerStep ==
    \E w \in Workers :
        \/ Dequeue(w)
        \/ BeginTask(w)
        \/ WorkerCheck(w)
        \/ WrapperCheck(w)
        \/ RunSteady(w)
        \/ EndTask(w)

\* the pool as the dispatcher drives it: NORMAL for the requests, LOW for
\* the notifications, submitted whenever the client sends one
InitSteady ==
    /\ InitPool
    /\ max_queue_size_ = MaxQueue
    /\ InitDispatcher
    /\ InitServer
    /\ middleware_ = <<>>

NextSteady ==
    \/ \E p \in {LOW, NORMAL} : SubmitSteady(p)
    \/ SteadyWorkerStep

\* the workers are scheduled and every task ends; nothing is assumed of the
\* client
SpecSteady == InitSteady /\ [][NextSteady]_vars /\ WF_vars(SteadyWorkerStep)

\* the read loop dispatching notifications, for registered and unregistered
\* methods, next to requests it answers itself; the handler registered for
\* a notification is any std::function: it returns or throws
NextNote ==
    \/ \E id \in RequestIds : DispatchRequest(id, "no/such")
    \/ \E id \in RequestIds : DispatchNotification("$/cancelRequest", id)
    \/ DispatchNotification("textDocument/didOpen", 0)
    \/ \E w \in Workers : StartTask(w)
    \/ \E w \in Workers, th \in BOOLEAN : ExecNotification(w, th)

SpecNote == Init /\ [][NextNote]_vars

\* the read loop fed with frames of every kind
NextRead == \E f \in InFrames : RunStdio(f)

SpecRead == Init /\ [][NextRead]_vars

\* main() after run() has returned: the server is destroyed, and
\* LspServer::Impl::~Impl calls stop(). stop() acts only when running_ is
\* still true: running_ = false, threadPool_->waitForCompletion(5 s), which
\* returns true when the pool is drained and false when the 5 s have passed
\* before that. When stop() has returned the members are destroyed.
stop ==
    /\ main = "returned"
    /\ main' = "teardown"
    /\ IF running_
       THEN /\ running_' = FALSE
            /\ wait_result' = IF task_queue_ = {} /\ active_threads_ = 0
                              THEN "true" ELSE "false"
       ELSE UNCHANGED <<running_, wait_result>>
    /\ UNCHANGED poolVars
    /\ UNCHANGED dispVars
    /\ UNCHANGED <<submit_result, dropped, resizing>>
    /\ UNCHANGED streamVars
    /\ UNCHANGED <<use_socket_, last_read>>
    /\ UNCHANGED <<featVars, readVars, ideVars>>

\* the server from the read loop to its destruction: completion requests,
\* then the shutdown request or the exit notification
InitLife ==
    /\ InitPool
    /\ InitDispatcher
    /\ InitServer
    /\ max_queue_size_ = MaxQueue
    /\ middleware_ = ServerMiddleware

NextLife ==
    \/ \E id \in RequestIds, m \in {"textDocument/completion", "shutdown"} :
            DispatchRequest(id, m)
    \/ DispatchNotification("exit", 0)
    \/ \E w \in Workers : StartTask(w)
    \/ \E w \in Workers : ExecCheck(w)
    \/ \E w \in Workers : ExecHandler(w, "respond")
    \/ \E w \in Workers : ExecStats(w)
    \/ \E w \in Workers : ExecNotification(w, FALSE)
    \/ stop

SpecLife == InitLife /\ [][NextLife]_vars

\* the server object is destroyed after run() has returned and stop() has
\* been called by ~Impl: the members go in the reverse order of their
\* declaration, dispatcher_ before threadPool_. ~RequestDispatcher calls
\* cancelAllRequests; the worker threads of the pool are still running
DestroyDispatcher ==
    /\ main = "teardown"
    /\ main' = "destroyed"
    /\ LET ks == {active_requests_[i] : i \in RequestIds} \ {0} IN
        /\ tokens' = [k \in 1..Len(tokens) |-> tokens[k] \/ k \in ks]
        /\ reqs' = MarkEarly({k \in ks : ~tokens[k]})
    /\ active_requests_' = [i \in RequestIds |-> 0]
    /\ UNCHANGED <<task_queue_, stats_, workers_, active_threads_, stop_,
                   max_queue_size_, now, nextTid, executed,
                   dstats_, wire, connected_, middleware_, notes>>
    /\ UNCHANGED obsVars
    /\ UNCHANGED streamVars
    /\ UNCHANGED <<running_, use_socket_, last_read>>
    /\ UNCHANGED <<featVars, readVars, ideVars>>

\* then threadPool_: ~ThreadPool sets stop_ and joins the workers, which
\* run what is queued before they leave
DestroyThreadPool ==
    /\ main = "destroyed"
    /\ Shutdown

\* the dispatcher has been destroyed, or the transport it refers to: the
\* socket_protocol and the socket_stream of runSocket are locals of that
\* function and are gone when it has returned
Destroyed ==
    \/ main = "destroyed"
    \/ use_socket_ /\ main \in {"returned", "teardown"}

\* a task of the dispatcher on a worker thread uses the dispatcher and,
\* through it, the protocol. When they have been destroyed the task either
\* finds their memory as it was, and goes on as the worker actions say, or
\* the process ends here
UseAfterFree(w) ==
    /\ Destroyed
    /\ workers_[w].pc \in {"call", "handler", "stats"}
    /\ main' = "crashed"
    /\ UNCHANGED poolVars
    /\ UNCHANGED dispVars
    /\ UNCHANGED obsVars
    /\ UNCHANGED streamVars
    /\ UNCHANGED <<running_, use_socket_, last_read>>
    /\ UNCHANGED <<featVars, readVars, ideVars>>

\* the server in stdio or in socket mode, with handlers that take their
\* time, from the read loop to the destruction of its members
InitTeardown ==
    /\ InitPool
    /\ InitDispatcher
    /\ running_ = TRUE
    /\ use_socket_ \in BOOLEAN
    /\ main = "loop"
    /\ last_read = NoFrame
    /\ lexer_ = Lexer(<<>>)
    /\ completion = NoCompletion
    /\ header_line = NoHeader
    /\ catalog = NoCatalog
    /\ m_process = NoProcess
    /\ m_client = NoClient
    /\ m_documents = NoDocuments
    /\ max_queue_size_ = MaxQueue
    /\ middleware_ = ServerMiddleware

\* the main thread while the process lives: the read loop, stop(), the
\* destructors
MainThreadStep ==
    /\ main # "crashed"
    /\ \/ \E id \in RequestIds, m \in {"textDocument/completion", "shutdown"} :
               DispatchRequest(id, m)
       \/ DispatchNotification("exit", 0)
       \/ stop
       \/ DestroyDispatcher
       \/ DestroyThreadPool

\* a worker thread while the process lives
WorkerThreadStep ==
    /\ main # "crashed"
    /\ \E w \in Workers :
          \/ StartTask(w)
          \/ ExecCheck(w)
          \/ ExecHandler(w, "respond")
          \/ ExecStats(w)
          \/ ExecNotification(w, FALSE)
          \/ WorkerExit(w)

NextTeardown ==
    \/ MainThreadStep
    \/ WorkerThreadStep
    \/ \E w \in Workers : UseAfterFree(w)

SpecTeardown == InitTeardown /\ [][NextTeardown]_vars

\* a document of the client is tokenized, and a completion request for a
\* position in it is served
NextLex ==
    \/ \E source \in Sources : reset(source)
    \/ TokenizeStep
    \/ TokenizeReturn
    \/ \E line \in 0..1, character \in 0..MaxLen : handleCompletionRequest(line, character)

SpecLex == Init /\ [][NextLex]_vars

\* the read loop on one frame with a Content-Length header line
NextHeader == \E rest \in HeaderRests : ReadHeaderLine(rest)

SpecHeader == Init /\ [][NextHeader]_vars

\* completion requests served concurrently by the worker threads
NextCatalog ==
    \E t \in 1..NumWorkers :
        \/ initialize(t)
        \/ InitializeClear(t)
        \/ InitializeInsert(t)
        \/ InitializeReturn(t)
        \/ getAllCompletions(t)
        \/ CopyCompletions(t)
        \/ CompletionServed(t)

SpecCatalog == Init /\ [][NextCatalog]_vars

\* the editor opening, editing and closing documents
NextDocuments ==
    \/ DocumentManagerInitialize
    \/ \E uri \in Uris, content \in Contents : openDocument(uri, content)
    \/ \E uri \in Uris, ready \in BOOLEAN : closeDocument(uri, ready)
    \/ \E uri \in Uris, content \in Contents, ready \in BOOLEAN :
          updateDocument(uri, content, ready)
    \/ \E uri \in Uris, text \in Contents, ready \in BOOLEAN :
          applyChange(uri, text, ready)
    \/ \E ready \in BOOLEAN : onAutoSyncTimer(ready)
    \/ \E ready \in BOOLEAN : shutdown(ready)

SpecDocuments == Init /\ [][NextDocuments]_vars

\* the client of the editor and the server process it manages
ExitStatuses == {"NormalExit", "CrashExit"}

NextIde ==
    \/ \E connection \in {"direct", "queued"} : ClientInitialize(connection)
    \/ \E exists \in BOOLEAN : start(exists)
    \/ \E exitStatus \in ExitStatuses : ClientStopped(exitStatus)
    \/ onProcessStarted
    \/ ProcessFailedToStart
    \/ \E exitStatus \in ExitStatuses : ProcessExited(exitStatus)
    \/ onRestartTimer
    \/ ServerAnswers
    \/ onDataReceived
    \/ \E exitStatus \in ExitStatuses : onConnectionTimeout(exitStatus)
    \/ \E exitStatus \in ExitStatuses : restartServer(exitStatus)
    \/ \E exists \in BOOLEAN : RestartStart(exists)

SpecIde == Init /\ [][NextIde]_vars

\* a dispatcher with the middleware of the server, or with a middleware that
\* blocks at the front of the chain or between two others
MiddlewareConfigs ==
    {ServerMiddleware, <<"Blocking", "Logging">>, <<"Logging", "Blocking", "Metrics">>}

InitMw ==
    /\ InitPool
    /\ InitDispatcher
    /\ InitServer
    /\ max_queue_size_ = MaxQueue
    /\ middleware_ \in MiddlewareConfigs

NextMw ==
    \/ \E id \in RequestIds : DispatchRequest(id, "textDocument/completion")
    \/ \E id \in RequestIds : cancelRequest(id)
    \/ \E w \in Workers : StartTask(w)
    \/ \E w \in Workers : ExecCheck(w)
    \/ \E w \in Workers, b \in HandlerBehaviours : ExecHandler(w, b)
    \/ \E w \in Workers : ExecStats(w)

SpecMw == InitMw /\ [][NextMw]_vars

(***************************************************************************)
(* JsonRpcProtocol::writeRawMessage statement by statement, over the       *)
(* SocketStream of LspServer::Impl::runSocket                              *)
(***************************************************************************)

\* a run of bytes on the stream: the header or the body of message msg, or
\* bytes of an inbound message (msg = 0)
Chunk(msg, part) == [msg |-> msg, part |-> part]

\* writeRawMessage: std::lock_guard<std::mutex> lock(write_mutex_); the call
\* returns at once when connected_ is false
WriteLock(t) ==
    /\ next_frame <= MaxFrames
    /\ connected_
    /\ writers[t].pc = "idle"
    /\ write_mutex_ = NoThread
    /\ write_mutex_' = t
    /\ writers' = [writers EXCEPT ![t] = [pc |-> "header", msg |-> next_frame]]
    /\ next_frame' = next_frame + 1
    /\ UNCHANGED <<out_stream, buffer_, badbit>>
    /\ UNCHANGED <<poolVars, dispVars, obsVars, loopVars>>
    /\ UNCHANGED <<featVars, readVars, ideVars>>

\* operator<< on the output stream: the bytes go to the put area of
\* SocketStreamBuf, which starts at buffer_; on a stream whose badbit is
\* set the sentry fails and nothing is put
Put(buf, chunk) == IF badbit THEN buf ELSE Append(buf, chunk)

\* output_stream_ << "Content-Length: " << json_content.length() << "\r\n\r\n"
WriteHeader(t) ==
    /\ writers[t].pc = "header"
    /\ buffer_' = Put(buffer_, Chunk(writers[t].msg, "header"))
    /\ writers' = [writers EXCEPT ![t].pc = "body"]
    /\ UNCHANGED <<out_stream, write_mutex_, next_frame, badbit>>
    /\ UNCHANGED <<poolVars, dispVars, obsVars, loopVars>>
    /\ UNCHANGED <<featVars, readVars, ideVars>>

\* output_stream_ << json_content
WriteBody(t) ==
    /\ writers[t].pc = "body"
    /\ buffer_' = Put(buffer_, Chunk(writers[t].msg, "body"))
    /\ writers' = [writers EXCEPT ![t].pc = "flush"]
    /\ UNCHANGED <<out_stream, write_mutex_, next_frame, badbit>>
    /\ UNCHANGED <<poolVars, dispVars, obsVars, loopVars>>
    /\ UNCHANGED <<featVars, readVars, ideVars>>

\* output_stream_.flush(): SocketStreamBuf::sync sends pbase()..pptr() and
\* resets the put area; writeRawMessage returns and the lock_guard unlocks
Flush(t) ==
    /\ writers[t].pc = "flush"
    /\ out_stream' = IF badbit THEN out_stream ELSE out_stream \o buffer_
    /\ buffer_' = IF badbit THEN buffer_ ELSE <<>>
    /\ write_mutex_' = NoThread
    /\ writers' = [writers EXCEPT ![t] = [pc |-> "idle", msg |-> 0]]
    /\ UNCHANGED <<next_frame, badbit>>
    /\ UNCHANGED <<poolVars, dispVars, obsVars, loopVars>>
    /\ UNCHANGED <<featVars, readVars, ideVars>>

\* what the catch of writeRawMessage does to connected_; it catches
\* std::exception, and output_stream_ has no exception mask, so that a
\* failed write throws nothing and the catch is not entered
WriteFailureCaught(connected) == connected

\* output_stream_.flush() when the socket takes fewer bytes than were put:
\* SocketStreamBuf::sync has sent k chunks, returns -1 without resetting the
\* put area, and flush sets badbit; writeRawMessage returns
FlushFails(t, k) ==
    /\ writers[t].pc = "flush"
    /\ ~badbit
    /\ k \in 0..(Len(buffer_) - 1)
    /\ out_stream' = out_stream \o SubSeq(buffer_, 1, k)
    /\ badbit' = TRUE
    /\ connected_' = WriteFailureCaught(connected_)
    /\ write_mutex_' = NoThread
    /\ writers' = [writers EXCEPT ![t] = [pc |-> "idle", msg |-> 0]]
    /\ UNCHANGED <<buffer_, next_frame>>
    /\ UNCHANGED <<active_requests_, dstats_, wire, reqs, middleware_, notes>>
    /\ UNCHANGED <<poolVars, obsVars, loopVars>>
    /\ UNCHANGED <<featVars, readVars, ideVars>>

\* JsonRpcProtocol::readMessage on the stream whose badbit is set (the
\* SocketStream is input and output stream at once): !input_stream_ holds,
\* connected_ = false, no message
ReadFailedStream ==
    /\ writers[ReadLoop].pc = "idle"
    /\ badbit
    /\ connected_
    /\ connected_' = FALSE
    /\ UNCHANGED <<active_requests_, dstats_, wire, reqs, middleware_, notes>>
    /\ UNCHANGED <<poolVars, obsVars, loopVars>>
    /\ UNCHANGED streamVars
    /\ UNCHANGED <<featVars, readVars, ideVars>>

\* SocketStreamBuf::underflow, called by readMessage in the read loop without
\* any lock: read(socket_fd_, buffer_, BUFFER_SIZE) stores the inbound bytes
\* at the start of buffer_, the array the put area lives in; n chunks that
\* were put and not yet sent are overwritten
ReaderFill(n) ==
    /\ writers[ReadLoop].pc = "idle"
    /\ ~badbit
    /\ n \in 1..Len(buffer_)
    /\ buffer_[n] # Chunk(0, "inbound")
    /\ buffer_' = [i \in 1..Len(buffer_) |->
                     IF i <= n THEN Chunk(0, "inbound") ELSE buffer_[i]]
    /\ UNCHANGED <<out_stream, write_mutex_, writers, next_frame, badbit>>
    /\ UNCHANGED <<poolVars, dispVars, obsVars, loopVars>>
    /\ UNCHANGED <<featVars, readVars, ideVars>>

\* runSocket: the read loop and the workers share one SocketStream
InitWire ==
    /\ InitPool
    /\ InitDispatcher
    /\ InitServer
    /\ max_queue_size_ = MaxQueue
    /\ middleware_ = ServerMiddleware

NextWire ==
    \/ \E t \in WriterThreads : WriteLock(t)
    \/ \E t \in WriterThreads : WriteHeader(t)
    \/ \E t \in WriterThreads : WriteBody(t)
    \/ \E t \in WriterThreads : Flush(t)
    \/ \E t \in WriterThreads, k \in 0..1 : FlushFails(t, k)
    \/ ReadFailedStream
    \/ \E n \in 1..2 : ReaderFill(n)

SpecWire == InitWire /\ [][NextWire]_vars

\* the public operations of a pool of NumWorkers workers, called from a
\* client thread while the workers run
InitApi ==
    /\ ThreadPoolInit(NumWorkers)
    /\ max_queue_size_ \in 1..MaxQueue
    /\ InitDispatcher
    /\ InitServer
    /\ middleware_ = <<>>

NextApi ==
    \/ \E p \in PoolPriorities, th \in {0, 1} : Submit(p, th)
    \/ cancelAllTasks
    \/ waitForCompletion
    \/ Shutdown
    \/ \E w \in Workers : Dequeue(w)
    \/ \E w \in Workers : WorkerExit(w)
    \/ \E w \in Workers : BeginTask(w)
    \/ \E w \in Workers : WorkerCheck(w)
    \/ \E w \in Workers : WrapperCheck(w)
    \/ \E w \in Workers : RunPlain(w)
    \/ \E w \in Workers : EndTask(w)

SpecApi == InitApi /\ [][NextApi]_vars

(***************************************************************************)
(* ThreadPool::resize                                                      *)
(***************************************************************************)

\* resize recreating one worker more than it was asked for
resizedWorkers_OneMore(n) == [w \in 1..(n + 1) |-> IdleWorker]

\* resize, shrinking: workers_.clear(), then num_threads times
\* workers_.emplace_back(workerLoop)
resizedWorkers(n) == [w \in 1..n |-> IdleWorker]

\* resize, growing: emplace_back(workerLoop) until workers_ holds num_threads
grownWorkers(n) ==
    [w \in 1..n |-> IF w \in DOMAIN workers_ THEN workers_[w] ELSE IdleWorker]

\* the record of a call of resize(n) that has returned
Resized(n, shrunk) ==
    [pc |-> "idle", n |-> n, calls |-> resizing.calls + 1, last |-> n,
     at |-> nextTid, shrunk |-> shrunk]

\* ThreadPool::resize(num_threads), up to its return or, when it shrinks the
\* pool, up to the join: nothing to do for the present size; stop_ = true
\* under queue_mutex_ and notify_all to shrink; new workers to grow
resize(n) ==
    /\ resizing.pc = "idle"
    /\ resizing.calls < MaxResizes
    /\ IF n = Cardinality(Workers)
       THEN /\ resizing' = Resized(n, FALSE)
            /\ UNCHANGED <<workers_, stop_>>
       ELSE IF n < Cardinality(Workers)
       THEN /\ stop_' = TRUE
            /\ resizing' = [resizing EXCEPT !.pc = "joining", !.n = n]
            /\ UNCHANGED workers_
       ELSE /\ workers_' = grownWorkers(n)
            /\ resizing' = Resized(n, FALSE)
            /\ UNCHANGED stop_
    /\ UNCHANGED <<task_queue_, tokens, stats_, active_threads_, max_queue_size_, now,
                   nextTid, executed>>
    /\ UNCHANGED dispVars
    /\ UNCHANGED <<submit_result, wait_result, dropped>>
    /\ UNCHANGED streamVars
    /\ UNCHANGED loopVars
    /\ UNCHANGED <<featVars, readVars, ideVars>>

\* resize, shrinking, from the join to the return: every worker has left
\* workerLoop; workers_.clear(); stop_ = false; the new workers
resizeJoined ==
    /\ resizing.pc = "joining"
    /\ \A w \in Workers : workers_[w].pc = "exited"
    /\ workers_' = resizedWorkers(resizing.n)
    /\ stop_' = FALSE
    /\ resizing' = Resized(resizing.n, TRUE)
    /\ UNCHANGED <<task_queue_, tokens, stats_, active_threads_, max_queue_size_, now,
                   nextTid, executed>>
    /\ UNCHANGED dispVars
    /\ UNCHANGED <<submit_result, wait_result, dropped>>
    /\ UNCHANGED streamVars
    /\ UNCHANGED loopVars
    /\ UNCHANGED <<featVars, readVars, ideVars>>

\* the sizes the pool is resized to: none, fewer and more workers than the
\* NumWorkers it starts with
ResizeTargets == {0, 1, NumWorkers, NumWorkers + 1}

\* testResize: ThreadPool pool(2, 100), a queue that never fills; the pool
\* is resized and tasks are submitted while the workers run
InitResize ==
    /\ ThreadPoolInit(NumWorkers)
    /\ max_queue_size_ = MaxTasks
    /\ InitDispatcher
    /\ InitServer
    /\ middleware_ = <<>>

\* a step of a worker thread in workerLoop
WorkerStep ==
    \E w \in Workers :
        \/ Dequeue(w)
        \/ WorkerExit(w)
        \/ BeginTask(w)
        \/ WorkerCheck(w)
        \/ WrapperCheck(w)
        \/ RunPlain(w)
        \/ EndTask(w)

NextResize ==
    \/ \E n \in ResizeTargets : resize(n)
    \/ resizeJoined
    \/ Submit(NORMAL, 0)
    \/ WorkerStep

\* the threads of the pool are scheduled: a worker that can take a step
\* takes one, and join returns once the workers have exited
SpecResize ==
    /\ InitResize
    /\ [][NextResize]_vars
    /\ WF_vars(WorkerStep)
    /\ WF_vars(resizeJoined)

(***************************************************************************)
(* Properties                                                              *)
(***************************************************************************)

\* number of frames written for request r
Replies(r) == Cardinality({i \in 1..Len(wire) : wire[i].req = r})

Requests == 1..Len(reqs)

\* no request task is queued or in progress
DispatcherQuiet ==
    /\ task_queue_ = {}
    /\ \A w \in Workers : workers_[w].pc = "idle"

\* the pool has drained: queue empty and no worker holds a task
Drained ==
    /\ task_queue_ = {}
    /\ \A w \in Workers : workers_[w].pc \in {"idle", "exited"}

\* C1: every accepted request gets exactly one reply or none, and none if
\* and only if it was cancelled: never more than one frame, and once its
\* task has returned there are zero frames exactly when its token is set.
C1_ReplyUniqueness ==
    \A r \in Requests :
        reqs[r].status = "accepted" =>
            /\ Replies(r) <= 1
            /\ reqs[r].done => (Replies(r) = 0 <=> tokens[reqs[r].token])

\* C2: respond and error of one context are single-shot: the first call
\* writes one frame and every later call writes nothing, so the callbacks of
\* one request never put more than one frame on the transport.
C2_SingleShotCallbacks ==
    \A r \in Requests : reqs[r].invoked => Replies(r) <= 1

\* the id of request r is used by no other request
UniqueId(r) == \A q \in Requests : q # r => reqs[q].id # reqs[r].id

\* C3: active_requests_ holds the entry of every accepted request (with an
\* id of its own) that has neither been replied to nor been cancelled, and
\* holds no entry of a request whose task has ended, replied to or cancelled.
C3_ActiveRequestsExact ==
    \A r \in Requests :
        reqs[r].status = "accepted" =>
            /\ (UniqueId(r) /\ ~reqs[r].done /\ Replies(r) = 0 /\ ~tokens[reqs[r].token])
                    => active_requests_[reqs[r].id] = reqs[r].token
            /\ reqs[r].done => active_requests_[reqs[r].id] # reqs[r].token

\* C4: a request whose token was set before its task started running never
\* has its handler invoked and never has a frame written for it.
C4_CancellationQuiet ==
    \A r \in Requests :
        reqs[r].early => ~reqs[r].invoked /\ Replies(r) = 0

\* a request was cancelled before its task started and the task has run
C4_Witness ==
    \E r \in Requests : reqs[r].early /\ reqs[r].done

\* C5: once a $/cancelRequest notification naming the id of an in-flight
\* request has been dealt with, the token of that request is set.
C5_CancelNotificationSetsToken ==
    \A n \in 1..Len(notes) :
        (/\ notes[n].method = "$/cancelRequest"
         /\ notes[n].target # 0
         /\ notes[n].status \in {"dropped", "handled"})
            => tokens[notes[n].target]

\* C6: a request whose submission to the pool failed (QueueFull or Stopped)
\* is answered with an Internal error (-32603) frame.
C6_SubmitFailureReplied ==
    \A r \in Requests :
        reqs[r].status = "rejected" =>
            \E i \in 1..Len(wire) :
                /\ wire[i].req = r
                /\ wire[i].kind = "error"
                /\ wire[i].code = InternalError

\* C7: when the handler of a request throws, exactly one frame is written
\* for the request (the Internal error is synthesized only when the handler
\* had not replied), and the request ends marked as failed.
C7_ThrowingHandlerOneReply ==
    \A r \in Requests :
        reqs[r].threw =>
            /\ Replies(r) = 1
            /\ reqs[r].done => reqs[r].failed

\* C8: whenever no request task is in progress,
\* total_requests = successful_requests + failed_requests + cancelled_requests.
C8_DispatcherStatsBalance ==
    DispatcherQuiet =>
        dstats_.total_requests = dstats_.successful_requests
                                 + dstats_.failed_requests
                                 + dstats_.cancelled_requests

\* C9: after the pool has drained, submitted = completed + cancelled + failed.
C9_PoolStatsConservation ==
    Drained =>
        stats_.submitted = stats_.completed + stats_.cancelled + stats_.failed

\* C10: a task whose token was already set when the worker dequeued it is
\* skipped by the worker (its function is not executed) and the step that
\* skips it increments the cancelled counter by exactly one.
C10_SkippedTaskCounted ==
    [][\A w \in Workers :
        (/\ workers_[w].pc = "active"
         /\ workers_[w].setAtDequeue
         /\ workers_'[w].pc # "active")
            => /\ executed' = executed
               /\ stats_'.cancelled = stats_.cancelled + 1]_vars

\* C11 as stated: with one worker, a task never runs before a task of
\* higher priority that had already been submitted when it ran
C11_DescendingPriority ==
    Cardinality(Workers) = 1 =>
        \A i, j \in 1..Len(executed) :
            (i < j /\ executed[j].task.tid <= executed[i].submitted)
                => executed[i].task.priority >= executed[j].task.priority

\* C11 (amended): each time a worker dequeues it takes a task of the highest
\* priority among the tasks queued at that moment; a task handed to an idle
\* worker may therefore start before a higher-priority task submitted later
C11_DequeueTakesHighest ==
    [][\A w \in Workers :
        (workers_[w].pc = "idle" /\ workers_'[w].pc = "popped")
            => \A u \in task_queue_ : u.priority <= workers_'[w].task.priority]_vars

\* the worker has taken a task over a task of lower priority submitted earlier
C11_Witness ==
    \E w \in Workers :
        /\ workers_[w].pc = "popped"
        /\ \E u \in task_queue_ : /\ u.tid < workers_[w].task.tid
                                   /\ u.priority < workers_[w].task.priority

\* C12: with one worker, two tasks of the same priority run in the order of
\* their submission, whatever their submit_time readings
C12_FifoWithinPriority ==
    Cardinality(Workers) = 1 =>
        \A i, j \in 1..Len(executed) :
            (i < j /\ executed[i].task.priority = executed[j].task.priority)
                => executed[i].task.tid < executed[j].task.tid

\* C13: waitForCompletion returns true only when the queue is empty and no
\* worker holds a task it has dequeued and not finished
C13_WaitMeansFinished ==
    [][(wait_result = "none" /\ wait_result' = "true")
        => /\ task_queue_ = {}
           /\ \A w \in Workers : workers_[w].pc \in {"idle", "exited"}]_vars

\* C14: the queue never holds more than max_queue_size_ tasks; a submit that
\* fails with QueueFull found the queue full, one that fails with Stopped
\* found stop_ set, both leave the queue and the counters as they were; a
\* submit that succeeds found the pool running and the queue below its limit
C14_SubmitBounds ==
    /\ [](Cardinality(task_queue_) <= max_queue_size_)
    /\ [][(submit_result' # submit_result /\ submit_result' = "QueueFull")
            => /\ Cardinality(task_queue_) >= max_queue_size_
               /\ UNCHANGED <<task_queue_, stats_>>]_vars
    /\ [][(submit_result' # submit_result /\ submit_result' = "Stopped")
            => /\ stop_
               /\ UNCHANGED <<task_queue_, stats_>>]_vars
    /\ [][(stats_'.submitted # stats_.submitted)
            => /\ ~stop_
               /\ Cardinality(task_queue_) < max_queue_size_
               /\ Cardinality(task_queue_') = Cardinality(task_queue_) + 1
               /\ stats_'.submitted = stats_.submitted + 1]_vars

\* a submit has failed with QueueFull on a queue holding max_queue_size_
\* tasks, or with Stopped after shutdown with tasks still queued
C14_Witness ==
    \/ submit_result = "QueueFull" /\ Cardinality(task_queue_) = max_queue_size_
    \/ submit_result = "Stopped" /\ task_queue_ # {}

\* C15: every task that threw is counted in failed
C15_ThrowCountedFailed ==
    stats_.failed = Cardinality({i \in 1..Len(executed) : executed[i].task.arg = 1})

\* C16: cancelAllTasks empties the queue, adds the number of removed tasks to
\* cancelled, leaves every worker and the task it holds alone, and no
\* removed task is ever run
C16_CancelAllDropsQueued ==
    /\ [](\A i \in 1..Len(executed) : executed[i].task.tid \notin dropped)
    /\ [][dropped' # dropped
            => /\ task_queue_' = {}
               /\ dropped' = dropped \cup {t.tid : t \in task_queue_}
               /\ stats_'.cancelled = stats_.cancelled + Cardinality(task_queue_)
               /\ workers_' = workers_
               /\ executed' = executed]_vars

\* tasks were dropped while a worker was running another one, which then
\* completed
C16_Witness ==
    /\ dropped # {}
    /\ \E i \in 1..Len(executed) : \E d \in dropped : executed[i].task.tid < d
    /\ stats_.cancelled = Cardinality(dropped)

\* the calls of kind op made for request r, in order
CallsOf(r, op) == SelectSeq(reqs[r].mw, LAMBDA c : c.op = op)

\* C17: when the preProcess of the k-th middleware returned false for a
\* request, its handler is not invoked, no middleware after k is
\* post-processed, and every middleware before k is post-processed with
\* success = false
C17_BlockedRequestPostProcess ==
    \A r \in Requests :
        \A k \in 1..Len(middleware_) :
            (/\ reqs[r].done
             /\ \E c \in 1..Len(reqs[r].mw) :
                    reqs[r].mw[c] = MiddlewareCall("pre", k, FALSE))
            => /\ ~reqs[r].invoked
               /\ \A c \in 1..Len(reqs[r].mw) :
                    reqs[r].mw[c].op = "post" => reqs[r].mw[c].mw <= k
               /\ \A i \in 1..(k - 1) :
                    \E c \in 1..Len(reqs[r].mw) :
                        reqs[r].mw[c] = MiddlewareCall("post", i, FALSE)

\* C18: once the handler of a request has run, the postProcess calls are
\* the preProcess calls in reverse order, each with the handler outcome
C18_PostProcessReversed ==
    \A r \in Requests :
        reqs[r].invoked =>
            LET pre == CallsOf(r, "pre")
                post == CallsOf(r, "post")
            IN /\ Len(post) = Len(pre)
               /\ \A j \in 1..Len(post) :
                    /\ post[j].mw = pre[Len(pre) + 1 - j].mw
                    /\ post[j].success = ~reqs[r].threw

\* C19: a step that dispatches or executes a notification writes nothing to
\* the wire; a notification for an unregistered method is dropped without a
\* task, a registered one is queued as a LOW task, and when its handler has
\* run, thrown or not, it is counted (and counted as failed when it threw)
C19_NotificationsSilent ==
    [][notes' # notes
        => /\ wire' = wire
           /\ \A t \in task_queue_' \ task_queue_ :
                t.kind = "notification" /\ t.priority = LOW
           /\ \A n \in 1..Len(notes') :
                /\ (n > Len(notes) /\ notes'[n].method \notin notification_handlers_)
                    => notes'[n].status = "dropped" /\ task_queue_' = task_queue_
                /\ (n <= Len(notes) /\ notes'[n] # notes[n])
                    => /\ notes'[n].status = "handled"
                       /\ dstats_'.total_notifications = dstats_.total_notifications + 1
                       /\ notes'[n].threw
                            => dstats_'.failed_requests = dstats_.failed_requests + 1]_vars

\* the handler of a notification has thrown, and a notification for an
\* unregistered method has been dropped
C19_Witness ==
    /\ \E n \in 1..Len(notes) : notes[n].status = "handled" /\ notes[n].threw
    /\ \E n \in 1..Len(notes) : notes[n].status = "dropped"

\* C20: what reaches the peer is a sequence of whole frames, each the
\* header of a message directly followed by the body of the same message
C20_FramesContiguous ==
    \A i \in 1..Len(out_stream) :
        IF i % 2 = 1
        THEN /\ out_stream[i].part = "header"
             /\ i + 1 <= Len(out_stream)
        ELSE /\ out_stream[i].part = "body"
             /\ out_stream[i].msg = out_stream[i - 1].msg

\* the read loop has just read a frame
FrameRead == last_read'.n = last_read.n + 1

\* the payload of the frame read last is a message error: text that is not
\* JSON, a missing or invalid jsonrpc member, a message with neither method
\* nor result nor error, or a request for a method without handler
MessageError(fr) ==
    /\ fr.header = "ok"
    /\ \/ fr.payload.kind = "garbage"
       \/ /\ fr.payload.kind = "object"
          /\ \/ fr.payload.jsonrpc # "2.0"
             \/ fr.payload.method = "absent" /\ ~fr.payload.has_result /\ ~fr.payload.has_error
             \/ fr.type = "Request" /\ fr.payload.method \notin request_handlers_

\* C21: a message error is reported to the peer and does not end the
\* server: after a frame with such a payload one more frame is on the
\* output stream, the connection is open and the read loop goes on to the
\* next frame.
C21_MessageErrorKeepsServing ==
    [][FrameRead /\ MessageError(last_read')
         => /\ Len(wire') = Len(wire) + 1
            /\ connected_'
            /\ main' = "loop"]_vars

\* C22: a frame whose payload is JSON but not a valid JSON-RPC message is
\* answered by exactly one error response, which carries the id of the
\* message when it has one and is a parse error with id null otherwise.
C22_InvalidShapeOneError ==
    [][(FrameRead /\ last_read'.header = "ok" /\ IsJson(last_read'.payload)
          /\ ~validateJsonRpcMessage(last_read'.payload))
         => /\ Len(wire') = Len(wire) + 1
            /\ wire'[Len(wire')].kind = "error"
            /\ wire'[Len(wire')].id = last_read'.payload.id
            /\ (last_read'.payload.id = 0 => wire'[Len(wire')].code = ParseError)]_vars

\* C23: a frame without Content-Length, with Content-Length 0 or with a
\* Content-Length above 100 MiB fails the connection: the transport is
\* disconnected, no message comes out of the read and nothing is handed to
\* the dispatcher.
C23_BadLengthDisconnects ==
    [][FrameRead /\ last_read'.header \in {"none", "zero", "oversize"}
         => /\ ~connected_'
            /\ last_read'.type = "nullopt"
            /\ UNCHANGED <<reqs, notes, dstats_>>]_vars

\* C24: a write that fails leaves the transport recorded as closed, and no
\* byte reaches the peer once a write has failed.
C24_WriteFailureCloses ==
    /\ [](badbit => ~connected_)
    /\ [][badbit => out_stream' = out_stream]_vars

\* just one of the three members is present
ExactlyOne(j) ==
    \/ j.method # "absent" /\ ~j.has_result /\ ~j.has_error
    \/ j.method = "absent" /\ j.has_result /\ ~j.has_error
    \/ j.method = "absent" /\ ~j.has_result /\ j.has_error

\* C25: a payload is accepted only when it is an object whose jsonrpc is
\* "2.0" and which has exactly one of method (a string), result and error;
\* it is a Request when it has method and id, a Notification when it has
\* method and no id, a Response when it has result, an Error when it has
\* error.
C25_AcceptedShapes ==
    [](last_read.type \notin {"none", "nullopt"} =>
        LET j == last_read.payload IN
          /\ j.kind = "object"
          /\ j.jsonrpc = "2.0"
          /\ ExactlyOne(j)
          /\ j.method # "nonstring"
          /\ last_read.type = "Request" <=> (j.method # "absent" /\ j.id # 0)
          /\ last_read.type = "Notification" <=> (j.method # "absent" /\ j.id = 0)
          /\ last_read.type = "Response" <=> j.has_result
          /\ last_read.type = "Error" <=> j.has_error)

\* C26: after a shutdown request or an exit notification the pool is
\* drained, for up to 5 s, before the teardown of the server begins: when
\* the teardown begins either the wait has timed out or no dispatched task
\* is queued or in progress, and the shutdown request has its reply.
C26_DrainBeforeTeardown ==
    [][main = "returned" /\ main' = "teardown"
         => \/ wait_result' = "false"
            \/ /\ DispatcherQuiet'
               /\ \A r \in Requests : reqs[r].method = "shutdown" => Replies(r)' = 1]_vars

\* C27: the statistics counters are read and updated under their mutex, so
\* that no update of a finishing task is lost: each task that leaves
\* updateStats has raised total_requests by exactly one.
C27_StatsUpdatesNotLost ==
    [][(\E r \in Requests : reqs[r].invoked /\ ~reqs[r].done /\ reqs'[r].done)
         => dstats_'.total_requests = dstats_.total_requests + 1]_vars

\* task tid is in the queue
Queued(tid) == \E t \in task_queue_ : t.tid = tid

\* the function of task tid has been invoked
Ran(tid) == \E i \in 1..Len(executed) : executed[i].task.tid = tid

\* when resize has returned the pool has as many workers, all of them in
\* workerLoop, as the call asked for, and it accepts tasks
ResizeLeavesWorkers ==
    (resizing.pc = "idle" /\ resizing.last >= 0) =>
        /\ Cardinality(Workers) = resizing.last
        /\ \A w \in Workers : workers_[w].pc # "exited"
        /\ ~stop_

\* C28 as stated: after resize(n) has returned the pool has exactly n
\* workers, and every task submitted after it is accepted and executed.
C28_ResizeThenExecuted ==
    /\ []ResizeLeavesWorkers
    /\ \A tid \in 1..MaxTasks :
          [](Queued(tid) /\ resizing.last >= 0 => <>Ran(tid))

\* C28, amended: after resize(n) has returned the pool has exactly n
\* workers and accepts tasks; when n >= 1 every task submitted after it is
\* executed.
C28_ResizeThenExecutedIfWorkers ==
    /\ []ResizeLeavesWorkers
    /\ \A tid \in 1..MaxTasks :
          [](Queued(tid) /\ resizing.last >= 1 => <>Ran(tid))

\* the pool was shrunk to one worker, and that worker has run a task
\* submitted after resize had returned
C28_Witness ==
    /\ resizing.calls = 1
    /\ resizing.shrunk
    /\ resizing.last = 1
    /\ Cardinality(Workers) = 1
    /\ \E i \in 1..Len(executed) : executed[i].task.tid >= resizing.at

\* the cursor of the request, in the 1-based lines and columns of the
\* lexer, lies within the range of token t
CursorIn(t, line, character) ==
    LET l == line + 1
        c == character + 1
    IN /\ (t.start.line < l \/ (t.start.line = l /\ t.start.column <= c))
       /\ (l < t.end.line \/ (l = t.end.line /\ c <= t.end.column))

\* C29: a completion request whose cursor lies inside a Comment or String
\* token of the document is served an empty item list.
C29_NoCompletionInCommentOrString ==
    (/\ lexer_.pc = "done"
     /\ completion.served
     /\ \E i \in 1..Len(lexer_.tokens_) :
           /\ lexer_.tokens_[i].type \in {"Comment", "String"}
           /\ CursorIn(lexer_.tokens_[i], completion.line, completion.character))
        => completion.items = {}

\* C30: for every source tokenize returns, and what it returns ends with an
\* EndOfFile token, holds no other EndOfFile token, is ordered by position,
\* and holds no Invalid token: the lexical errors are in errors_.
C30_TokenizeEndsWithOneEof ==
    /\ lexer_.pc # "thrown"
    /\ lexer_.pc = "done" =>
         LET toks == lexer_.tokens_ IN
           /\ EndsWithEof(toks)
           /\ \A i \in 1..(Len(toks) - 1) : toks[i].type # "EndOfFile"
           /\ \A i \in 1..Len(toks) : toks[i].type # "Invalid"
           /\ \A i \in 1..(Len(toks) - 1) : toks[i].end.offset <= toks[i + 1].start.offset

\* C31: once the dispatcher, or the transport it refers to, has been
\* destroyed no task of the dispatcher starts or goes on and nothing is
\* written to the transport: a worker thread does nothing but leave.
C31_NoTaskAfterDestruction ==
    [][Destroyed =>
          /\ wire' = wire
          /\ main' # "crashed"
          /\ \A w \in Workers :
                workers_'[w].pc # workers_[w].pc => workers_'[w].pc = "exited"]_vars

\* request r has been accepted and its task has not ended
InFlight(r) == reqs[r].status = "accepted" /\ ~reqs[r].done

\* the token of request r is the one active_requests_ holds for its id
Tracked(r) == active_requests_[reqs[r].id] = reqs[r].token

\* C32: two requests in flight with the same id are both tracked with their
\* own token: a cancelRequest(id) sets the token of both, and when the task
\* of one of them ends the other is still tracked.
C32_SameIdBothTracked ==
    [][\A r, q \in Requests :
         (r # q /\ reqs[r].id = reqs[q].id /\ InFlight(r) /\ InFlight(q)) =>
            /\ (/\ Len(tokens') = Len(tokens)
                /\ active_requests_' = active_requests_
                /\ \E k \in 1..Len(tokens) : tokens'[k] /\ ~tokens[k])
                   => tokens'[reqs[r].token] /\ tokens'[reqs[q].token]
            /\ (reqs'[r].done /\ Tracked(q)) => Tracked(q)']_vars

\* C33: every task the pool has accepted is eventually taken from the queue
\* by a worker, to be executed or skipped as cancelled, also a LOW task
\* while NORMAL tasks keep arriving.
C33_AcceptedEventuallyExecuted ==
    \A tid \in 1..(MaxQueue + NumWorkers) : Queued(tid) ~> ~Queued(tid)

\* a worker holds the Task object of task tid
Held(tid) == \E w \in Workers : workers_[w].task.tid = tid

\* the shared state of the future of task tid, which the std::packaged_task
\* in the closure of the Task fills: the value or the exception of the user
\* function once it has been invoked; std::future_error(broken_promise)
\* once the Task object, and the packaged_task with it, has been destroyed
\* without an invocation; nothing before
FutureState(tid) ==
    IF \E i \in 1..Len(executed) : executed[i].task.tid = tid /\ executed[i].task.arg = 1
    THEN "exception"
    ELSE IF Ran(tid) THEN "value"
    ELSE IF Queued(tid) \/ Held(tid) THEN "not ready"
    ELSE "broken_promise"

\* C36: the future of every accepted task becomes ready: with the value or
\* the exception of the task when it was run, with an error when a worker
\* skipped it as cancelled or cancelAllTasks dropped it.
C36_FutureBecomesReady ==
    \A tid \in 1..(MaxQueue + NumWorkers) :
        Queued(tid) ~> FutureState(tid) # "not ready"

\* C34: for every header line that starts with "Content-Length:", N is the
\* non-negative integer written in the remainder of the line, with or
\* without a space after the colon; a negative or non-numeric remainder
\* fails the connection and no payload is read or allocated for it
C34_ContentLengthParsed ==
    (header_line.pc = "done" /\ header_line.rest # <<>> /\ Head(header_line.rest) = ":") =>
        IF Announced(header_line.rest) >= 0
        THEN /\ header_line.outcome = "payload"
             /\ header_line.content_length = Announced(header_line.rest)
        ELSE /\ header_line.outcome \in {"invalid", "disconnected"}
             /\ ~header_line.allocated

\* C35: the process-wide Arabic completion catalog is initialized exactly
\* once, and no completion request reads it before it is fully populated
\* or while it is being populated, also when several completion requests
\* run on different worker threads
C35_CatalogInitializedOnce ==
    /\ catalog.populated <= 1
    /\ \A t \in DOMAIN catalog.threads :
          catalog.threads[t].pc = "done" =>
              /\ ~catalog.threads[t].raced
              /\ catalog.threads[t].items = Categories

\* C40: DocumentManager::updateDocument, applyChange and closeDocument
\* always return when the protocol is ready: none of them, through
\* sendChangesToServer, acquires m_documentsMutex again while the same call
\* holds it
C40_DocumentCallsReturn ==
    m_documents.waiting \notin {"updateDocument", "applyChange", "closeDocument"}

\* C37: LspProcess::start and LspProcess::stop always return: the
\* stateChanged signal they emit while holding m_stateMutex never makes a
\* slot invoked inside the emit (onServerProcessStateChanged, which calls
\* getState) wait for that mutex
C37_StartStopReturn ==
    ~(m_process.call \in {"start", "stop"} /\ m_process.waiting = "getState")

\* C38: when the server process has exited unexpectedly and a restart is
\* scheduled, the restart timer's firing starts the process again: the
\* state leaves Crashed for Starting
RestartTimerFired == m_process.m_restartTimer /\ ~m_process'.m_restartTimer
                        /\ m_process'.m_restartAttempts = m_process.m_restartAttempts + 1

C38_RestartTimerStartsProcess ==
    [][(RestartTimerFired /\ m_process.m_state = "Crashed")
          => m_process'.m_state = "Starting"]_vars

\* C39: when the client is Initializing and reads the server's result
\* response to its initialize request, it emits initializeResponseReceived,
\* sends the initialized notification and becomes Connected
ResponseRead == m_client.pipe = "result" /\ m_client'.pipe = "none"

C39_InitializeResponseConnects ==
    [][(ResponseRead /\ m_client.m_connectionState = "Initializing")
          => /\ m_client'.initializeResponseReceived
             /\ "initialized" \in m_client'.server
             /\ m_client'.m_connectionState = "Connected"]_vars

====
